---------------------------- MODULE Spec2Model ----------------------------
(***************************************************************************)
(* Model of the chai.im cryptographic core (crates/chai-crypto) and of the *)
(* relay's prekey store and message delivery (crates/chai-server).         *)
(*                                                                         *)
(* Cryptography is symbolic.  An X25519 scalar is a positive integer s,    *)
(* the public key of s is the group element written -s, and               *)
(* X25519(a, -b) = X25519(b, -a) is written as the ordered pair of a and b.*)
(* An HKDF / HMAC output is named by the inputs it was computed from, so   *)
(* two keys are equal exactly when they were derived the same way.         *)
(* An Option<T> is a sequence of length at most one.                       *)
(***************************************************************************)
EXTENDS Integers, Sequences, FiniteSets, TLC

VARIABLES
    ratchet,      \* party -> DoubleRatchet state (ratchet.rs:107-129)
    rng,          \* next scalar OsRng hands to DHKeyPair::generate
    sent,         \* party -> envelopes that party's encrypt produced, in order
    handed,       \* party -> indices of the peer's envelopes given to decrypt
    accepted,     \* party -> indices decrypt has returned a plaintext for
    reaccepted,   \* party -> indices decrypt has returned a plaintext for twice
    cache_hits,   \* party -> indices whose plaintext was opened with a skipped key
    tidy,         \* party -> "orderly" / "reordered" / "disturbed" (delivery history)
    forgeries,    \* party -> forged new-key messages that decrypt rejected so far
    adversary,    \* adversarial deliveries (replays, forgeries) made so far
    last,         \* what the last operation was, what it was given and what it returned
    managers,     \* party -> SessionManager (session.rs:121-132)
    drawn,        \* DH pairs the registries' ratchets have generated in decrypt
    initials,     \* X3DH initial messages sent, each with the secret its sender derived
    wire,         \* party -> envelopes that party's registry produced, in order
    read,         \* party -> how many of the peer's envelopes it has been handed
    derived,      \* the receive_session calls made: message, secret, prekey consumed
    event,        \* what the last registry operation was and what it returned
    db_prekey_bundles,   \* relay table prekey_bundles, rows in the order of created_at
    db_one_time_prekeys, \* relay table one_time_prekeys, rows in the order of created_at
    row_locks,        \* rows of one_time_prekeys locked by a statement in progress
    requests,         \* bundle request -> where its handler stands and what it holds
    upload,           \* the (id, key) pairs a running store_one_time_prekeys has left
    uploaded,         \* one-time-prekey uploads made so far
    low_prekeys,      \* LowPrekeys frames the relay has sent
    connections,      \* ConnectionManager: user -> handles registered, in order of add
    channels,         \* handle -> the mpsc channel handle_socket created for it
    sockets,          \* handle -> where its handle_socket stands, its client, the
                      \* messages that waited for its user when it registered and
                      \* have not been queued for it since, and per sender the id
                      \* of the Message frame queued for it last
    tasks,            \* handle -> where the handler of its current inbound frame stands
    db_messages,      \* relay table messages, rows in the order of created_at
    now,              \* the relay's clock: what NOW() returns next
    note              \* what the last step of the relay's messaging was

ratchetVars == <<ratchet, rng, sent, handed, accepted, reaccepted, cache_hits, tidy, forgeries,
                 adversary, last>>

x3dhVars == <<managers, drawn, initials, wire, read, derived, event>>

relayVars == <<db_prekey_bundles, db_one_time_prekeys, row_locks, requests, upload, uploaded,
               low_prekeys>>

msgVars == <<connections, channels, sockets, tasks, db_messages, now, note>>

vars == <<ratchetVars, x3dhVars, relayVars, msgVars>>

---------------------------------------------------------------------------
(* Bounds of the model.                                                    *)

\* ratchet.rs:18 sets MAX_SKIP to 1000.  The model runs the same code with a
\* small window so that the window's edge is reached by a handful of messages.
MAX_SKIP == 2

\* encrypt calls each party makes
MaxSend == 3

\* encrypt calls of the initiator in the long conversation
MaxChat == 5

\* encrypt calls of the responder in the long conversation
MaxReply == 1

\* replays and forgeries the network injects
MaxAdversary == 1

\* one-time prekeys a session registry generates
MaxPrekeys == 2

\* initiate_session calls that succeed
MaxInitiate == 2

\* receive_session calls
MaxReceive == 3

\* handshakes that are followed by messages
MaxHandshake == 1

\* bundle requests the relay serves
MaxRequests == 2

\* one-time prekey ids a client uploads
MaxOtpId == 2

\* UploadOneTimePrekeys requests
MaxUploads == 2

\* signed prekey ids a client uploads
MaxBundles == 1

\* envelopes a session registry produces
MaxWire == 2

\* WebSocket connections the relay accepts
MaxConnections == 2

\* ws/handler.rs:65 gives every connection an outbound queue of 100 frames.  The
\* model runs the same code with a small queue so that a few frames fill it.
MaxQueue == 1

\* SendMessage frames whose row the relay stores
MaxStored == 2

\* AckMessages frames the relay handles; the clock advances by one with each
MaxAcks == 2

\* The largest counter value, where checked_add fails (ratchet.rs:198-201,
\* 233-236, 265-268).  The code's counters are u32 and end at 2^32 - 1; TLC's
\* integers end at 2^31 - 1, which stands for it here.
U32_MAX == 2147483647

Parties == {"alice", "bob"}

Peer(p) == IF p = "alice" THEN "bob" ELSE "alice"

---------------------------------------------------------------------------
(* Option<T>                                                               *)

None == <<>>

Some(x) == <<x>>

is_some(o) == o # <<>>

is_none(o) == o = <<>>

unwrap(o) == o[1]

---------------------------------------------------------------------------
(* keys.rs: DHKeyPair                                                      *)

\* X25519PublicKey::from(&secret)
x25519_public(secret) == -secret

\* DHKeyPair::generate / from_secret_bytes: the pair of a scalar
DHKeyPair(secret) == [secret |-> secret, public |-> x25519_public(secret)]

\* DHKeyPair::diffie_hellman
diffie_hellman(pair, their_public) ==
    IF pair.secret <= -their_public
    THEN <<pair.secret, -their_public>>
    ELSE <<-their_public, pair.secret>>

---------------------------------------------------------------------------
(* cipher.rs: AES-256-GCM with associated data                             *)

\* bytes of nonce and tag around the ciphertext
NONCE_LEN == 12

TAG_LEN == 16

\* encrypt_with_ad: the output can be opened with this key and this ad only
encrypt_with_ad(key, plaintext, ad) ==
    [key |-> key, ad |-> ad, pt |-> plaintext, len |-> NONCE_LEN + 1 + TAG_LEN]

\* decrypt_with_ad
\* an open that does not bind the associated data
decrypt_with_ad_unbound(key, ciphertext, ad) ==
    IF ciphertext.len < NONCE_LEN + TAG_LEN
    THEN [tag |-> "DecryptionFailed", pt |-> 0]
    ELSE IF ciphertext.key = key
         THEN [tag |-> "Ok", pt |-> ciphertext.pt]
         ELSE [tag |-> "DecryptionFailed", pt |-> 0]

decrypt_with_ad(key, ciphertext, ad) ==
    IF ciphertext.len < NONCE_LEN + TAG_LEN
    THEN [tag |-> "DecryptionFailed", pt |-> 0]
    ELSE IF ciphertext.key = key /\ ciphertext.ad = ad
         THEN [tag |-> "Ok", pt |-> ciphertext.pt]
         ELSE [tag |-> "DecryptionFailed", pt |-> 0]

---------------------------------------------------------------------------
(* ratchet.rs: key schedule                                                *)

\* RootKey::ratchet: HKDF(salt = root, ikm = dh_output, "Chai.im Ratchet"),
\* 64 bytes split into the next root key and a chain key
RootKey_ratchet(root, dh_output) ==
    LET okm == root \o <<0>> \o dh_output
    IN  [root |-> okm, chain |-> [base |-> okm, n |-> 0]]

\* ChainKey::advance: (HMAC(ck, 0x02), HMAC(ck, 0x01))
ChainKey_advance(ck) ==
    [chain |-> [base |-> ck.base, n |-> ck.n + 1],
     message |-> [base |-> ck.base, n |-> ck.n]]

\* MessageHeader::to_bytes (bincode: 32 key bytes, u32, u32)
Header_to_bytes(header) ==
    <<header.dh_public, header.previous_counter, header.message_number>>

MessageHeader(dh_public, previous_counter, message_number) ==
    [dh_public |-> dh_public, previous_counter |-> previous_counter,
     message_number |-> message_number]

---------------------------------------------------------------------------
(* ratchet.rs: DoubleRatchet                                               *)

\* skipped_keys is a HashMap keyed by (dh_public, message_number): a set of
\* entries, no two with the same key
skipped_get(skipped, dh, n) == {e \in skipped : e.dh = dh /\ e.n = n}

\* a map that drops what is inserted: the receiver keeps no skipped key
skipped_insert_dropped(skipped, dh, n, mk) == skipped

skipped_insert(skipped, dh, n, mk) ==
    (skipped \ skipped_get(skipped, dh, n)) \cup {[dh |-> dh, n |-> n, mk |-> mk]}

\* u32::saturating_sub
saturating_sub(a, b) == IF a > b THEN a - b ELSE 0

\* DoubleRatchet::init_sender; fresh is the scalar DHKeyPair::generate draws
init_sender(shared_secret, their_dh_public, fresh) ==
    LET dh_self == DHKeyPair(fresh)
        r == RootKey_ratchet(shared_secret, diffie_hellman(dh_self, their_dh_public))
    IN  [dh_self |-> Some(dh_self),
         dh_self_bytes |-> Some(dh_self.secret),
         dh_remote |-> Some(their_dh_public),
         root_key |-> r.root,
         chain_key_send |-> Some(r.chain),
         chain_key_recv |-> None,
         send_counter |-> 0,
         recv_counter |-> 0,
         previous_counter |-> 0,
         skipped_keys |-> {}]

\* DoubleRatchet::init_receiver
init_receiver(shared_secret, our_dh) ==
    [dh_self |-> Some(our_dh),
     dh_self_bytes |-> Some(our_dh.secret),
     dh_remote |-> None,
     root_key |-> shared_secret,
     chain_key_send |-> None,
     chain_key_recv |-> None,
     send_counter |-> 0,
     recv_counter |-> 0,
     previous_counter |-> 0,
     skipped_keys |-> {}]

\* an encrypt whose counter wraps around instead of failing
encrypt_wrapping(st, plaintext) ==
    IF is_none(st.dh_self) \/ is_none(st.chain_key_send)
    THEN [st |-> st, tag |-> "SessionNotInitialized", envelope |-> None]
    ELSE LET adv == ChainKey_advance(unwrap(st.chain_key_send))
             s1 == [st EXCEPT !.chain_key_send = Some(adv.chain)]
             header == MessageHeader(unwrap(st.dh_self).public,
                                     st.previous_counter, st.send_counter)
             ct == encrypt_with_ad(adv.message, plaintext, Header_to_bytes(header))
         IN  [st |-> [s1 EXCEPT !.send_counter = IF @ = U32_MAX THEN 0 ELSE @ + 1],
              tag |-> "Ok",
              envelope |-> Some([header |-> header, ciphertext |-> ct])]

\* DoubleRatchet::encrypt: the state it leaves and what it returns
encrypt(st, plaintext) ==
    IF is_none(st.dh_self) \/ is_none(st.chain_key_send)
    THEN [st |-> st, tag |-> "SessionNotInitialized", envelope |-> None]
    ELSE LET adv == ChainKey_advance(unwrap(st.chain_key_send))
             s1 == [st EXCEPT !.chain_key_send = Some(adv.chain)]
             header == MessageHeader(unwrap(st.dh_self).public,
                                     st.previous_counter, st.send_counter)
             ct == encrypt_with_ad(adv.message, plaintext, Header_to_bytes(header))
         IN  IF st.send_counter = U32_MAX
             THEN [st |-> s1, tag |-> "CounterOverflow", envelope |-> None]
             ELSE [st |-> [s1 EXCEPT !.send_counter = @ + 1],
                   tag |-> "Ok",
                   envelope |-> Some([header |-> header, ciphertext |-> ct])]

\* a map that is never trimmed
limit_skipped_never(skipped) == {skipped}

\* "Limit skipped keys storage" (ratchet.rs:270-276): every map the trimming
\* can leave.  keys().next() of a HashMap is whichever entry its iteration
\* order puts first: any entry of the map.
limit_skipped(skipped) ==
    IF Cardinality(skipped) > MAX_SKIP
    THEN {skipped \ {e} : e \in skipped}
    ELSE {skipped}

\* the while loop of skip_message_keys
RECURSIVE skip_loop(_, _, _)
skip_loop(st, dh_remote, until) ==
    IF ~(st.recv_counter < until)
    THEN {[st |-> st, err |-> "Ok"]}
    ELSE IF is_none(st.chain_key_recv)
    THEN {[st |-> st, err |-> "SessionNotInitialized"]}
    ELSE
        LET adv == ChainKey_advance(unwrap(st.chain_key_recv))
            ins == skipped_insert(st.skipped_keys, dh_remote, st.recv_counter, adv.message)
            s1 == [st EXCEPT !.chain_key_recv = Some(adv.chain), !.skipped_keys = ins]
        IN  IF st.recv_counter = U32_MAX
            THEN {[st |-> s1, err |-> "CounterOverflow"]}
            ELSE
                LET s2 == [s1 EXCEPT !.recv_counter = @ + 1]
                    kept == limit_skipped(ins)
                IN  UNION {skip_loop([s2 EXCEPT !.skipped_keys = k], dh_remote, until) :
                             k \in kept}

\* a skip_message_keys that advances the receiving chain and throws the
\* message keys it passes away
skip_message_keys_discarding(st, until) ==
    IF is_none(st.chain_key_recv)
    THEN {[st |-> st, err |-> "Ok"]}
    ELSE IF saturating_sub(until, st.recv_counter) > MAX_SKIP
    THEN {[st |-> st, err |-> "MessageTooOld"]}
    ELSE IF is_none(st.dh_remote)
    THEN {[st |-> st, err |-> "SessionNotInitialized"]}
    ELSE {[r EXCEPT !.st.skipped_keys = st.skipped_keys] :
            r \in skip_loop(st, unwrap(st.dh_remote), until)}

\* DoubleRatchet::skip_message_keys: every (state, error) it can end in
skip_message_keys(st, until) ==
    IF is_none(st.chain_key_recv)
    THEN {[st |-> st, err |-> "Ok"]}
    ELSE IF saturating_sub(until, st.recv_counter) > MAX_SKIP
    THEN {[st |-> st, err |-> "MessageTooOld"]}
    ELSE IF is_none(st.dh_remote)
    THEN {[st |-> st, err |-> "SessionNotInitialized"]}
    ELSE skip_loop(st, unwrap(st.dh_remote), until)

\* a DH ratchet whose sending step starts from the root key it had on entry
\* instead of the root key its receiving step produced
dh_ratchet_stale_root(st, their_new_public, fresh) ==
    LET s1 == [st EXCEPT !.previous_counter = st.send_counter,
                         !.send_counter = 0,
                         !.recv_counter = 0,
                         !.dh_remote = Some(their_new_public)]
    IN  IF is_none(st.dh_self)
        THEN [st |-> s1, err |-> "SessionNotInitialized"]
        ELSE
            LET r1 == RootKey_ratchet(s1.root_key,
                                      diffie_hellman(unwrap(s1.dh_self), their_new_public))
                new_dh == DHKeyPair(fresh)
                r2 == RootKey_ratchet(s1.root_key, diffie_hellman(new_dh, their_new_public))
            IN  [st |-> [s1 EXCEPT !.root_key = r2.root,
                                   !.chain_key_recv = Some(r1.chain),
                                   !.chain_key_send = Some(r2.chain),
                                   !.dh_self_bytes = Some(new_dh.secret),
                                   !.dh_self = Some(new_dh)],
                 err |-> "Ok"]

\* DoubleRatchet::dh_ratchet; fresh is the scalar of the new DH pair
dh_ratchet(st, their_new_public, fresh) ==
    LET s1 == [st EXCEPT !.previous_counter = st.send_counter,
                         !.send_counter = 0,
                         !.recv_counter = 0,
                         !.dh_remote = Some(their_new_public)]
    IN  IF is_none(st.dh_self)
        THEN [st |-> s1, err |-> "SessionNotInitialized"]
        ELSE
            LET r1 == RootKey_ratchet(s1.root_key,
                                      diffie_hellman(unwrap(s1.dh_self), their_new_public))
                new_dh == DHKeyPair(fresh)
                r2 == RootKey_ratchet(r1.root, diffie_hellman(new_dh, their_new_public))
            IN  [st |-> [s1 EXCEPT !.root_key = r2.root,
                                   !.chain_key_recv = Some(r1.chain),
                                   !.chain_key_send = Some(r2.chain),
                                   !.dh_self_bytes = Some(new_dh.secret),
                                   !.dh_self = Some(new_dh)],
                 err |-> "Ok"]

\* decrypt, lines 226-240: advance the receiving chain and open the message
decrypt_advance(st, header, ciphertext) ==
    IF is_none(st.chain_key_recv)
    THEN [st |-> st, tag |-> "SessionNotInitialized", pt |-> 0]
    ELSE
        LET adv == ChainKey_advance(unwrap(st.chain_key_recv))
            s1 == [st EXCEPT !.chain_key_recv = Some(adv.chain)]
        IN  IF header.message_number = U32_MAX
            THEN [st |-> s1, tag |-> "CounterOverflow", pt |-> 0]
            ELSE
                LET res == decrypt_with_ad(adv.message, ciphertext, Header_to_bytes(header))
                IN  [st |-> [s1 EXCEPT !.recv_counter = header.message_number + 1],
                     tag |-> res.tag, pt |-> res.pt]

\* decrypt, lines 217-224: the DH ratchet when the header's key is new, then
\* the skip up to the header's message number
decrypt_ratchet(st, header, ciphertext, fresh) ==
    LET new_key == st.dh_remote # Some(header.dh_public)
        skipped_old == IF new_key
                       THEN skip_message_keys(st, header.previous_counter)
                       ELSE {[st |-> st, err |-> "Ok"]}
    IN  UNION {
          IF a.err # "Ok"
          THEN {[st |-> a.st, tag |-> a.err, pt |-> 0, generated |-> 0]}
          ELSE
            LET b == IF new_key THEN dh_ratchet(a.st, header.dh_public, fresh) ELSE a
                g == IF new_key /\ is_some(a.st.dh_self) THEN 1 ELSE 0
            IN  IF b.err # "Ok"
                THEN {[st |-> b.st, tag |-> b.err, pt |-> 0, generated |-> g]}
                ELSE {IF c.err # "Ok"
                      THEN [st |-> c.st, tag |-> c.err, pt |-> 0, generated |-> g]
                      ELSE LET d == decrypt_advance(c.st, header, ciphertext)
                           IN  [st |-> d.st, tag |-> d.tag, pt |-> d.pt, generated |-> g] :
                        c \in skip_message_keys(b.st, header.message_number)}
          : a \in skipped_old}

\* a decrypt that looks a skipped key up with get() and leaves it in the map
decrypt_keeping_key(st, header, ciphertext, fresh) ==
    LET hit == skipped_get(st.skipped_keys, header.dh_public, header.message_number)
    IN  IF hit # {}
        THEN LET e == CHOOSE x \in hit : TRUE
                 res == decrypt_with_ad(e.mk, ciphertext, Header_to_bytes(header))
             IN  {[st |-> st, tag |-> res.tag, pt |-> res.pt, generated |-> 0]}
        ELSE decrypt_ratchet(st, header, ciphertext, fresh)

\* DoubleRatchet::decrypt: every outcome [st, tag, pt, generated] of one call;
\* generated counts the DH pairs the call drew from the RNG
decrypt(st, header, ciphertext, fresh) ==
    LET hit == skipped_get(st.skipped_keys, header.dh_public, header.message_number)
    IN  IF hit # {}
        THEN LET e == CHOOSE x \in hit : TRUE
                 res == decrypt_with_ad(e.mk, ciphertext, Header_to_bytes(header))
             IN  {[st |-> [st EXCEPT !.skipped_keys = @ \ hit],
                   tag |-> res.tag, pt |-> res.pt, generated |-> 0]}
        ELSE decrypt_ratchet(st, header, ciphertext, fresh)

---------------------------------------------------------------------------
(* keys.rs: identity keys, signatures, prekeys and bundles.                *)
(*                                                                         *)
(* An Ed25519 signing key is named by its seed s.  The 32 bytes of its     *)
(* verifying key are -(1000 + s): read as an X25519 public key (as         *)
(* X25519PublicKey::from does with raw bytes) they are the public key of   *)
(* scalar 1000 + s, which nobody holds.  to_montgomery maps them to        *)
(* -(2000 + s), the X25519 public key birationally equivalent to the       *)
(* verifying key; its scalar 2000 + s is derivable from the signing key    *)
(* only.  Scalars OsRng hands out stay below 1000.                         *)

\* keys.rs:63: the length of an Ed25519 signature
SIGNATURE_LEN == 64

IdentityKeyPair(seed) == [seed |-> seed]

\* IdentityKeyPair::public_key followed by to_bytes
IdentityKeyPair_public_key(identity) == -(1000 + identity.seed)

\* IdentityKeyPair::sign
IdentityKeyPair_sign(identity, message) ==
    [signer |-> identity.seed, msg |-> message, len |-> SIGNATURE_LEN]

\* IdentityPublicKey::verify
IdentityPublicKey_verify(public, message, signature) ==
    IF signature.len # SIGNATURE_LEN
    THEN "InvalidSignature"
    ELSE IF public = -(1000 + signature.signer) /\ signature.msg = message
         THEN "Ok"
         ELSE "InvalidSignature"

\* IdentityPublicKey::dh_public_key: to_montgomery of the verifying key
IdentityPublicKey_dh_public_key(public) == public - 1000

\* SignedPreKey::generate
SignedPreKey_generate(id, identity, fresh) ==
    LET key_pair == DHKeyPair(fresh)
    IN  [id |-> id, key_pair |-> key_pair,
         signature |-> IdentityKeyPair_sign(identity, key_pair.public)]

\* OneTimePreKey::generate
OneTimePreKey_generate(id, fresh) == [id |-> id, key_pair |-> DHKeyPair(fresh)]

\* PreKeyBundle::new; one_time_prekey is an Option<&OneTimePreKey>
PreKeyBundle_new(identity, signed_prekey, one_time_prekey) ==
    [identity_key |-> IdentityKeyPair_public_key(identity),
     signed_prekey |-> signed_prekey.key_pair.public,
     signed_prekey_id |-> signed_prekey.id,
     signed_prekey_signature |-> signed_prekey.signature,
     one_time_prekey |-> IF is_some(one_time_prekey)
                         THEN Some(unwrap(one_time_prekey).key_pair.public)
                         ELSE None,
     one_time_prekey_id |-> IF is_some(one_time_prekey)
                            THEN Some(unwrap(one_time_prekey).id)
                            ELSE None]

\* a verify that accepts every bundle
PreKeyBundle_verify_skipped(bundle) == "Ok"

\* PreKeyBundle::verify
PreKeyBundle_verify(bundle) ==
    IdentityPublicKey_verify(bundle.identity_key, bundle.signed_prekey,
                             bundle.signed_prekey_signature)

---------------------------------------------------------------------------
(* x3dh.rs                                                                 *)

\* derive_shared_secret: HKDF(salt = None, ikm = 0xFF^32 || dh1 || dh2 || dh3
\* [|| dh4], "Chai.im X3DH"), named by its input
derive_shared_secret(dh1, dh2, dh3, dh4) ==
    <<255>> \o dh1 \o dh2 \o dh3 \o (IF is_some(dh4) THEN unwrap(dh4) ELSE <<>>)

\* X3DHSender::identity_dh_with: a DH with a pair generated for this one call
X3DHSender_identity_dh_with(their_public, fresh) ==
    diffie_hellman(DHKeyPair(fresh), their_public)

\* X3DHSender::initiate; fresh, fresh + 1 are the scalars its two
\* DHKeyPair::generate calls draw
X3DHSender_initiate(identity, their_bundle, fresh) ==
    IF PreKeyBundle_verify(their_bundle) # "Ok"
    THEN [tag |-> "InvalidSignature", secret |-> None, message |-> None, generated |-> 0]
    ELSE
        LET ephemeral == DHKeyPair(fresh)
            their_identity_dh == IdentityPublicKey_dh_public_key(their_bundle.identity_key)
            their_signed_prekey == their_bundle.signed_prekey
            dh1 == X3DHSender_identity_dh_with(their_signed_prekey, fresh + 1)
            dh2 == diffie_hellman(ephemeral, their_identity_dh)
            dh3 == diffie_hellman(ephemeral, their_signed_prekey)
            dh4 == IF is_some(their_bundle.one_time_prekey)
                   THEN Some(diffie_hellman(ephemeral, unwrap(their_bundle.one_time_prekey)))
                   ELSE None
        IN  [tag |-> "Ok",
             secret |-> Some(derive_shared_secret(dh1, dh2, dh3, dh4)),
             message |-> Some([identity_key |-> IdentityKeyPair_public_key(identity),
                               ephemeral_key |-> ephemeral.public,
                               signed_prekey_id |-> their_bundle.signed_prekey_id,
                               one_time_prekey_id |-> their_bundle.one_time_prekey_id]),
             generated |-> 2]

\* X3DHReceiver::identity_dh_with: a DH with a pair generated for this one call
X3DHReceiver_identity_dh_with(their_public, fresh) ==
    diffie_hellman(DHKeyPair(fresh), their_public)

\* Vec::remove
remove_at(seq, idx) == SubSeq(seq, 1, idx - 1) \o SubSeq(seq, idx + 1, Len(seq))

\* iter().position(|k| k.id == id): the first index with that id, if any
position_of(one_time_prekeys, id) ==
    LET found == {k \in 1..Len(one_time_prekeys) : one_time_prekeys[k].id = id}
    IN  IF found = {} THEN None
        ELSE Some(CHOOSE k \in found : \A other \in found : k <= other)

\* X3DHReceiver::receive on a receiver [identity, signed_prekey,
\* one_time_prekeys]: the receiver it leaves, the secret, and the one-time
\* prekey it consumed
X3DHReceiver_receive(receiver, message, fresh) ==
    LET idx == IF is_some(message.one_time_prekey_id)
               THEN position_of(receiver.one_time_prekeys,
                                unwrap(message.one_time_prekey_id))
               ELSE None
        one_time_prekey == IF is_some(idx)
                           THEN Some(receiver.one_time_prekeys[unwrap(idx)])
                           ELSE None
        pool == IF is_some(idx)
                THEN remove_at(receiver.one_time_prekeys, unwrap(idx))
                ELSE receiver.one_time_prekeys
        their_identity == message.identity_key
        their_ephemeral == message.ephemeral_key
        dh1 == diffie_hellman(receiver.signed_prekey.key_pair, their_identity)
        dh2 == X3DHReceiver_identity_dh_with(their_ephemeral, fresh)
        dh3 == diffie_hellman(receiver.signed_prekey.key_pair, their_ephemeral)
        dh4 == IF is_some(one_time_prekey)
               THEN Some(diffie_hellman(unwrap(one_time_prekey).key_pair, their_ephemeral))
               ELSE None
    IN  [receiver |-> [receiver EXCEPT !.one_time_prekeys = pool],
         tag |-> "Ok",
         secret |-> Some(derive_shared_secret(dh1, dh2, dh3, dh4)),
         consumed |-> one_time_prekey,
         generated |-> 1]

---------------------------------------------------------------------------
(* session.rs: Session and SessionManager                                  *)

\* Session::initiate; draws fresh .. fresh + 2
Session_initiate(our_identity, peer_id, their_bundle, fresh) ==
    LET x == X3DHSender_initiate(our_identity, their_bundle, fresh)
    IN  IF x.tag # "Ok"
        THEN [tag |-> x.tag, session |-> None, message |-> None, secret |-> None,
              generated |-> x.generated]
        ELSE [tag |-> "Ok",
              session |-> Some([peer_id |-> peer_id,
                                ratchet |-> init_sender(unwrap(x.secret),
                                                        their_bundle.signed_prekey,
                                                        fresh + x.generated),
                                is_initiator |-> TRUE]),
              message |-> x.message,
              secret |-> x.secret,
              generated |-> x.generated + 1]

\* a Session::receive that hands the X3DH receiver a clone of the pool and
\* leaves the caller's pool as it was
Session_receive_cloning(our_identity, our_signed_prekey, our_one_time_prekeys, peer_id, initial_message, fresh) ==
    LET receiver == [identity |-> our_identity, signed_prekey |-> our_signed_prekey,
                     one_time_prekeys |-> our_one_time_prekeys]
        x == X3DHReceiver_receive(receiver, initial_message, fresh)
    IN  [pool |-> our_one_time_prekeys,
         tag |-> x.tag,
         session |-> IF x.tag = "Ok"
                     THEN Some([peer_id |-> peer_id,
                                ratchet |-> init_receiver(unwrap(x.secret),
                                                          our_signed_prekey.key_pair),
                                is_initiator |-> FALSE])
                     ELSE None,
         secret |-> x.secret,
         consumed |-> x.consumed,
         generated |-> x.generated]

\* Session::receive.  std::mem::take moves the caller's pool into the X3DH
\* receiver and leaves an empty Vec behind; the receiver is dropped on return.
Session_receive(our_identity, our_signed_prekey, our_one_time_prekeys, peer_id, initial_message, fresh) ==
    LET receiver == [identity |-> our_identity, signed_prekey |-> our_signed_prekey,
                     one_time_prekeys |-> our_one_time_prekeys]
        x == X3DHReceiver_receive(receiver, initial_message, fresh)
    IN  [pool |-> <<>>,
         tag |-> x.tag,
         session |-> IF x.tag = "Ok"
                     THEN Some([peer_id |-> peer_id,
                                ratchet |-> init_receiver(unwrap(x.secret),
                                                          our_signed_prekey.key_pair),
                                is_initiator |-> FALSE])
                     ELSE None,
         secret |-> x.secret,
         consumed |-> x.consumed,
         generated |-> x.generated]

\* SessionManager::from_identity (and new, whose identity is generated):
\* signed prekey 1, an empty pool, no session, next_prekey_id 1
SessionManager_from_identity(identity, fresh) ==
    [identity |-> identity,
     signed_prekey |-> SignedPreKey_generate(1, identity, fresh),
     one_time_prekeys |-> <<>>,
     sessions |-> [q \in Parties |-> None],
     next_prekey_id |-> 1]

\* SessionManager::get_prekey_bundle
SessionManager_get_prekey_bundle(m) ==
    PreKeyBundle_new(m.identity, m.signed_prekey,
                     IF Len(m.one_time_prekeys) > 0 THEN Some(m.one_time_prekeys[1]) ELSE None)

\* SessionManager::generate_one_time_prekeys; draws fresh .. fresh + count - 1
SessionManager_generate_one_time_prekeys(m, count, fresh) ==
    [m EXCEPT !.one_time_prekeys =
                  @ \o [k \in 1..count |->
                          OneTimePreKey_generate(m.next_prekey_id + k - 1, fresh + k - 1)],
              !.next_prekey_id = @ + count]

\* the bincode bytes of an X3DH initial message, as a plaintext
serialize_initial(message) == 900 + (0 - message.ephemeral_key)

\* SessionManager::initiate_session
SessionManager_initiate_session(m, peer_id, their_bundle, fresh) ==
    LET x == Session_initiate(m.identity, peer_id, their_bundle, fresh)
    IN  IF x.tag # "Ok"
        THEN [m |-> m, tag |-> x.tag, encrypted |-> None, message |-> None,
              secret |-> None, generated |-> x.generated]
        ELSE LET e == encrypt(unwrap(x.session).ratchet,
                              serialize_initial(unwrap(x.message)))
                 session == [unwrap(x.session) EXCEPT !.ratchet = e.st]
             IN  [m |-> [m EXCEPT !.sessions[peer_id] = Some(session)],
                  tag |-> e.tag,
                  encrypted |-> e.envelope,
                  message |-> IF e.tag = "Ok" THEN x.message ELSE None,
                  secret |-> x.secret,
                  generated |-> x.generated]

\* SessionManager::receive_session
SessionManager_receive_session(m, peer_id, initial_message, fresh) ==
    LET x == Session_receive(m.identity, m.signed_prekey, m.one_time_prekeys, peer_id,
                             initial_message, fresh)
    IN  [m |-> [m EXCEPT !.one_time_prekeys = x.pool,
                         !.sessions[peer_id] = IF x.tag = "Ok" THEN x.session ELSE @],
         tag |-> x.tag,
         secret |-> x.secret,
         consumed |-> x.consumed,
         generated |-> x.generated]

\* an encrypt that empties the one-time prekey pool when it finds no session
SessionManager_encrypt_touching(m, peer_id, plaintext) ==
    IF is_none(m.sessions[peer_id])
    THEN [m |-> [m EXCEPT !.one_time_prekeys = <<>>], tag |-> "SessionNotFound",
          envelope |-> None]
    ELSE LET e == encrypt(unwrap(m.sessions[peer_id]).ratchet, plaintext)
         IN  [m |-> [m EXCEPT !.sessions[peer_id] =
                                   Some([unwrap(@) EXCEPT !.ratchet = e.st])],
              tag |-> e.tag, envelope |-> e.envelope]

\* SessionManager::encrypt
SessionManager_encrypt(m, peer_id, plaintext) ==
    IF is_none(m.sessions[peer_id])
    THEN [m |-> m, tag |-> "SessionNotFound", envelope |-> None]
    ELSE LET e == encrypt(unwrap(m.sessions[peer_id]).ratchet, plaintext)
         IN  [m |-> [m EXCEPT !.sessions[peer_id] =
                                   Some([unwrap(@) EXCEPT !.ratchet = e.st])],
              tag |-> e.tag, envelope |-> e.envelope]

\* SessionManager::decrypt: every outcome of one call
SessionManager_decrypt(m, peer_id, message, fresh) ==
    IF is_none(m.sessions[peer_id])
    THEN {[m |-> m, tag |-> "SessionNotFound", pt |-> 0, generated |-> 0]}
    ELSE {[m |-> [m EXCEPT !.sessions[peer_id] =
                               Some([unwrap(@) EXCEPT !.ratchet = d.st])],
           tag |-> d.tag, pt |-> d.pt, generated |-> d.generated] :
            d \in decrypt(unwrap(m.sessions[peer_id]).ratchet, message.header,
                          message.ciphertext, fresh)}

---------------------------------------------------------------------------
(* chai-server: the relay's prekey store (db/prekeys.rs) and the two       *)
(* bundle handlers that read it (ws/message.rs, handlers/prekeys.rs).      *)
(*                                                                         *)
(* Each handler is a sequence of SQL statements with an await between      *)
(* them; statements of concurrent handlers interleave.  The migrations     *)
(* that create the tables are not part of the sources: that                *)
(* one_time_prekeys has a unique (user_id, prekey_id) and that used        *)
(* defaults to false is taken from the data model of the specification.    *)

\* ws/message.rs:176: the low-water mark of unused one-time prekeys
LOW_PREKEYS == 10

\* the accounts of the users table: bob has one, carol does not
Users == {"bob"}

Targets == {"bob", "carol"}

\* users::get_by_id
users_get_by_id(user_id) == IF user_id \in Users THEN Some(user_id) ELSE None

\* store_prekey_bundle: INSERT ... ON CONFLICT (user_id, prekey_id) DO UPDATE
store_prekey_bundle(bundles, user_id, signed_prekey, prekey_id) ==
    LET same == {k \in 1..Len(bundles) :
                   bundles[k].user_id = user_id /\ bundles[k].prekey_id = prekey_id}
    IN  IF same = {}
        THEN Append(bundles, [user_id |-> user_id, signed_prekey |-> signed_prekey,
                              prekey_id |-> prekey_id])
        ELSE [k \in 1..Len(bundles) |->
                IF k \in same THEN [bundles[k] EXCEPT !.signed_prekey = signed_prekey]
                ELSE bundles[k]]

\* get_prekey_bundle: the user's row with the latest created_at
get_prekey_bundle(bundles, user_id) ==
    LET mine == {k \in 1..Len(bundles) : bundles[k].user_id = user_id}
    IN  IF mine = {} THEN None
        ELSE Some(bundles[CHOOSE k \in mine : \A other \in mine : other <= k])

\* unique (user_id, prekey_id) of one_time_prekeys, as the specification's data
\* model has it: the rows an INSERT of (user_id, prekey_id) conflicts with
otp_conflicts(rows, user_id, prekey_id) ==
    {k \in 1..Len(rows) : rows[k].user_id = user_id /\ rows[k].prekey_id = prekey_id}

\* one INSERT ... ON CONFLICT DO NOTHING of store_one_time_prekeys; rows are
\* kept in the order of created_at
insert_one_time_prekey(rows, user_id, prekey_id, prekey) ==
    IF otp_conflicts(rows, user_id, prekey_id) # {}
    THEN rows
    ELSE Append(rows, [user_id |-> user_id, prekey_id |-> prekey_id, prekey |-> prekey,
                       used |-> FALSE])

\* the subquery of consume_one_time_prekey without its locking clause: the
\* oldest unused row of the user, locked or not
select_ignoring_locks(rows, locks, user_id) ==
    LET free == {k \in 1..Len(rows) : rows[k].user_id = user_id /\ ~rows[k].used}
    IN  IF free = {} THEN None
        ELSE Some(CHOOSE k \in free : \A other \in free : k <= other)

\* the subquery of consume_one_time_prekey: SELECT id ... WHERE user_id = $1 AND
\* used = false ORDER BY created_at ASC LIMIT 1 FOR UPDATE SKIP LOCKED
select_for_update_skip_locked(rows, locks, user_id) ==
    LET free == {k \in 1..Len(rows) :
                   rows[k].user_id = user_id /\ ~rows[k].used /\ k \notin locks}
    IN  IF free = {} THEN None
        ELSE Some(CHOOSE k \in free : \A other \in free : k <= other)

\* count_one_time_prekeys
count_one_time_prekeys(rows, user_id) ==
    Cardinality({k \in 1..Len(rows) : rows[k].user_id = user_id /\ ~rows[k].used})

\* PrekeyBundleData as both handlers build it from the bundle row and the
\* consumed one-time prekey
PrekeyBundleData(identity_key, pk, otp) ==
    [identity_key |-> identity_key,
     signed_prekey |-> pk.signed_prekey,
     signed_prekey_id |-> pk.prekey_id,
     one_time_prekey |-> IF is_some(otp) THEN Some(unwrap(otp).prekey) ELSE None,
     one_time_prekey_id |-> IF is_some(otp) THEN Some(unwrap(otp).prekey_id) ELSE None]

\* a bundle request that has not been made yet
NoRequest ==
    [kind |-> "ws", target |-> "bob", pc |-> "idle", user |-> None, pk |-> None,
     row |-> None, otp |-> None, remaining |-> 0, status |-> "none", bundle |-> None,
     unused_at_start |-> 0, skipped |-> FALSE]

RelayInit ==
    /\ db_prekey_bundles = <<>>
    /\ db_one_time_prekeys = <<>>
    /\ row_locks = {}
    /\ requests = [r \in 1..MaxRequests |-> NoRequest]
    /\ upload = <<>>
    /\ uploaded = 0
    /\ low_prekeys = {}

\* bob uploads a signed prekey bundle (handle_upload_prekey_bundle, upload_bundle)
UploadPrekeyBundle ==
    /\ \E prekey_id \in 1..MaxBundles :
         db_prekey_bundles' = store_prekey_bundle(db_prekey_bundles, "bob", 700 + prekey_id,
                                               prekey_id)
    /\ db_prekey_bundles' # db_prekey_bundles
    /\ UNCHANGED <<db_one_time_prekeys, row_locks, requests, upload, uploaded, low_prekeys>>
    /\ UNCHANGED <<ratchetVars, x3dhVars, msgVars>>

\* bob sends UploadOneTimePrekeys / POST /prekeys/one-time with a list of
\* (id, key); the handler starts its loop of inserts
UploadOneTimePrekeys ==
    /\ upload = <<>>
    /\ uploaded < MaxUploads
    /\ \E first \in 1..MaxOtpId : \E count \in 1..2 :
         /\ first + count - 1 <= MaxOtpId
         /\ upload' = [k \in 1..count |->
                         [id |-> first + k - 1, key |-> 800 + 10 * uploaded + first + k - 1]]
    /\ uploaded' = uploaded + 1
    /\ UNCHANGED <<db_prekey_bundles, db_one_time_prekeys, row_locks, requests, low_prekeys>>
    /\ UNCHANGED <<ratchetVars, x3dhVars, msgVars>>

\* one iteration of the loop of store_one_time_prekeys
StoreOneTimePrekey ==
    /\ upload # <<>>
    /\ db_one_time_prekeys' = insert_one_time_prekey(db_one_time_prekeys, "bob",
                                                  Head(upload).id, Head(upload).key)
    /\ upload' = Tail(upload)
    /\ UNCHANGED <<db_prekey_bundles, row_locks, requests, uploaded, low_prekeys>>
    /\ UNCHANGED <<ratchetVars, x3dhVars, msgVars>>

\* a client sends GetPrekeyBundle over its socket, or GET /prekeys/bundle/:id;
\* requests are numbered in the order they are made
RequestBundle(r) ==
    /\ requests[r].pc = "idle"
    /\ \A earlier \in 1..(r - 1) : requests[earlier].pc # "idle"
    /\ \E kind \in {"ws", "http"} : \E target \in Targets :
         requests' = [requests EXCEPT ![r] =
                        [NoRequest EXCEPT !.kind = kind, !.target = target, !.pc = "user",
                                          !.unused_at_start =
                                              count_one_time_prekeys(db_one_time_prekeys,
                                                                     target)]]
    /\ UNCHANGED <<db_prekey_bundles, db_one_time_prekeys, row_locks, upload, uploaded,
                   low_prekeys>>
    /\ UNCHANGED <<ratchetVars, x3dhVars, msgVars>>

\* users::get_by_id(...).await: the WebSocket handler answers bundle = None for
\* an unknown user, the HTTP handler fails with UserNotFound
FetchUser(r) ==
    /\ requests[r].pc = "user"
    /\ LET q == requests[r]
           user == users_get_by_id(q.target)
       IN  requests' = [requests EXCEPT ![r] =
               IF is_some(user) THEN [q EXCEPT !.user = user, !.pc = "bundle"]
               ELSE IF q.kind = "ws" THEN [q EXCEPT !.pc = "respond"]
               ELSE [q EXCEPT !.pc = "done", !.status = "UserNotFound"]]
    /\ UNCHANGED <<db_prekey_bundles, db_one_time_prekeys, row_locks, upload, uploaded,
                   low_prekeys>>
    /\ UNCHANGED <<ratchetVars, x3dhVars, msgVars>>

\* prekeys::get_prekey_bundle(...).await
FetchBundle(r) ==
    /\ requests[r].pc = "bundle"
    /\ LET q == requests[r]
           pk == get_prekey_bundle(db_prekey_bundles, q.target)
       IN  requests' = [requests EXCEPT ![r] =
               IF is_some(pk) THEN [q EXCEPT !.pk = pk, !.pc = "select"]
               ELSE [q EXCEPT !.pc = "respond"]]
    /\ UNCHANGED <<db_prekey_bundles, db_one_time_prekeys, row_locks, upload, uploaded,
                   low_prekeys>>
    /\ UNCHANGED <<ratchetVars, x3dhVars, msgVars>>

\* consume_one_time_prekey, the subquery: the row it picks is locked until the
\* statement's transaction commits
ConsumeSelect(r) ==
    /\ requests[r].pc = "select"
    /\ LET q == requests[r]
           row == select_for_update_skip_locked(db_one_time_prekeys, row_locks, q.target)
           passed == {k \in row_locks : db_one_time_prekeys[k].user_id = q.target}
       IN  /\ requests' = [requests EXCEPT ![r] = [q EXCEPT !.row = row, !.pc = "update",
                                                            !.skipped = (passed # {})]]
           /\ row_locks' = IF is_some(row) THEN row_locks \cup {unwrap(row)} ELSE row_locks
    /\ UNCHANGED <<db_prekey_bundles, db_one_time_prekeys, upload, uploaded, low_prekeys>>
    /\ UNCHANGED <<ratchetVars, x3dhVars, msgVars>>

\* consume_one_time_prekey, UPDATE ... SET used = true ... RETURNING and the
\* commit that releases the row lock
ConsumeUpdate(r) ==
    /\ requests[r].pc = "update"
    /\ LET q == requests[r]
           next == IF q.kind = "ws" THEN "count" ELSE "respond"
       IN  IF is_some(q.row)
           THEN /\ db_one_time_prekeys' = [db_one_time_prekeys EXCEPT ![unwrap(q.row)].used = TRUE]
                /\ row_locks' = row_locks \ {unwrap(q.row)}
                /\ requests' = [requests EXCEPT ![r] =
                                  [q EXCEPT !.otp = Some(db_one_time_prekeys[unwrap(q.row)]),
                                            !.pc = next]]
           ELSE /\ requests' = [requests EXCEPT ![r] = [q EXCEPT !.pc = next]]
                /\ UNCHANGED <<db_one_time_prekeys, row_locks>>
    /\ UNCHANGED <<db_prekey_bundles, upload, uploaded, low_prekeys>>
    /\ UNCHANGED <<ratchetVars, x3dhVars, msgVars>>

\* handle_get_prekey_bundle: count_one_time_prekeys(...).await and the
\* LowPrekeys frame for the bundle's owner
CountRemaining(r) ==
    /\ requests[r].pc = "count"
    /\ LET q == requests[r]
           remaining == count_one_time_prekeys(db_one_time_prekeys, q.target)
       IN  /\ requests' = [requests EXCEPT ![r] =
                             [q EXCEPT !.remaining = remaining, !.pc = "respond"]]
           /\ low_prekeys' = IF remaining < LOW_PREKEYS
                             THEN low_prekeys \cup {[to |-> q.target, by |-> r,
                                                     remaining |-> remaining]}
                             ELSE low_prekeys
    /\ UNCHANGED <<db_prekey_bundles, db_one_time_prekeys, row_locks, upload, uploaded>>
    /\ UNCHANGED <<ratchetVars, x3dhVars, msgVars>>

\* the PrekeyBundle frame / the GetBundleResponse
Respond(r) ==
    /\ requests[r].pc = "respond"
    /\ LET q == requests[r]
       IN  requests' = [requests EXCEPT ![r] =
               [q EXCEPT !.pc = "done", !.status = "Ok",
                         !.bundle = IF is_some(q.pk)
                                    THEN Some(PrekeyBundleData(unwrap(q.user),
                                                               unwrap(q.pk), q.otp))
                                    ELSE None]]
    /\ UNCHANGED <<db_prekey_bundles, db_one_time_prekeys, row_locks, upload, uploaded,
                   low_prekeys>>
    /\ UNCHANGED <<ratchetVars, x3dhVars, msgVars>>

---------------------------------------------------------------------------
(* Two ratchets over a network that may reorder, drop, replay and forge.   *)
(* The set-up is that of test_double_ratchet_roundtrip (ratchet.rs:371):   *)
(* one shared secret, bob's DH pair as the first remote key of alice.      *)

Range(seq) == {seq[i] : i \in 1..Len(seq)}

\* SharedSecret([0x42; 32])
TestSecret == <<66>>

\* the plaintext of the k-th message of a party: distinct for distinct messages
Plaintext(p, k) == (IF p = "alice" THEN 100 ELSE 200) + k

\* a key the network made up: the public key of a scalar no party ever draws
EvilPublic == x25519_public(0)

\* bytes that no key opens, long enough to hold nonce and tag, and too short
Garbage ==
    [key |-> [base |-> <<>>, n |-> 0], ad |-> <<>>, pt |-> 0,
     len |-> NONCE_LEN + 1 + TAG_LEN]

Truncated == [Garbage EXCEPT !.len = NONCE_LEN]

RatchetInit ==
    /\ ratchet = [p \in Parties |->
                    IF p = "alice"
                    THEN init_sender(TestSecret, DHKeyPair(1).public, 2)
                    ELSE init_receiver(TestSecret, DHKeyPair(1))]
    /\ rng = 3
    /\ sent = [p \in Parties |-> <<>>]
    /\ handed = [p \in Parties |-> {}]
    /\ accepted = [p \in Parties |-> {}]
    /\ reaccepted = [p \in Parties |-> {}]
    /\ cache_hits = [p \in Parties |-> {}]
    /\ tidy = [p \in Parties |-> "orderly"]
    /\ forgeries = [p \in Parties |-> 0]
    /\ adversary = 0
    /\ last = [op |-> "init", party |-> "alice", tag |-> "Ok", pt |-> 0,
               expect |-> 0, replay |-> FALSE, opened_before |-> FALSE, new_key |-> FALSE,
               cached |-> FALSE, ahead |-> 0, tampered |-> FALSE]

\* a party encrypts its next plaintext and puts the envelope on the network
EncryptUpTo(p, bound) ==
    /\ Len(sent[p]) < bound
    /\ LET out == encrypt(ratchet[p], Plaintext(p, Len(sent[p]) + 1))
       IN  /\ ratchet' = [ratchet EXCEPT ![p] = out.st]
           /\ sent' = IF out.tag = "Ok"
                      THEN [sent EXCEPT ![p] = Append(@, unwrap(out.envelope))]
                      ELSE sent
           /\ last' = [op |-> "encrypt", party |-> p, tag |-> out.tag, pt |-> 0,
                       expect |-> 0, replay |-> FALSE, opened_before |-> FALSE,
                       new_key |-> FALSE, cached |-> FALSE, ahead |-> 0, tampered |-> FALSE]
    /\ UNCHANGED <<rng, handed, accepted, reaccepted, cache_hits, tidy, forgeries,
                   adversary>>
    /\ UNCHANGED <<x3dhVars, relayVars, msgVars>>

Encrypt(p) == EncryptUpTo(p, MaxSend)

\* no envelope of an older chain is still undelivered when envelope i arrives
ChainOrder(p, i) ==
    \A j \in 1..(i - 1) :
        j \in handed[p]
        \/ sent[Peer(p)][j].header.dh_public = sent[Peer(p)][i].header.dh_public

\* the delivery history of p once envelope i of its peer has been handed over
TidyAfter(p, i) ==
    IF i \in handed[p] \/ tidy[p] = "disturbed" THEN "disturbed"
    ELSE IF \A j \in 1..(i - 1) : j \in handed[p] THEN tidy[p]
    ELSE IF ChainOrder(p, i) THEN "reordered"
    ELSE "disturbed"

\* the network hands envelope i of the peer to p: for the first time, in any
\* order, or once more (a replay)
Deliver(p, i) ==
    /\ i \in 1..Len(sent[Peer(p)])
    /\ i \in handed[p] => adversary < MaxAdversary
    /\ LET e == sent[Peer(p)][i]
           st == ratchet[p]
       IN  \E out \in decrypt(st, e.header, e.ciphertext, rng) :
             /\ ratchet' = [ratchet EXCEPT ![p] = out.st]
             /\ rng' = rng + out.generated
             /\ accepted' = IF out.tag = "Ok"
                            THEN [accepted EXCEPT ![p] = @ \cup {i}]
                            ELSE accepted
             /\ reaccepted' = IF out.tag = "Ok" /\ i \in accepted[p]
                              THEN [reaccepted EXCEPT ![p] = @ \cup {i}]
                              ELSE reaccepted
             /\ cache_hits' =
                  IF out.tag = "Ok" /\ skipped_get(st.skipped_keys, e.header.dh_public,
                                                   e.header.message_number) # {}
                  THEN [cache_hits EXCEPT ![p] = @ \cup {i}]
                  ELSE cache_hits
             /\ last' = [op |-> "decrypt", party |-> p, tag |-> out.tag, pt |-> out.pt,
                         expect |-> e.ciphertext.pt, replay |-> i \in handed[p],
                         opened_before |-> i \in accepted[p],
                         new_key |-> st.dh_remote # Some(e.header.dh_public),
                         cached |-> skipped_get(st.skipped_keys, e.header.dh_public,
                                                e.header.message_number) # {},
                         ahead |-> e.header.message_number - st.recv_counter,
                         tampered |-> FALSE]
    /\ handed' = [handed EXCEPT ![p] = @ \cup {i}]
    /\ tidy' = [tidy EXCEPT ![p] = TidyAfter(p, i)]
    /\ adversary' = IF i \in handed[p] THEN adversary + 1 ELSE adversary
    /\ UNCHANGED <<sent, forgeries>>
    /\ UNCHANGED <<x3dhVars, relayVars, msgVars>>

\* what the network can make up for p: a header with a key of its own or with
\* p's current remote key, a genuine header around garbage, or a genuine
\* ciphertext under a header changed in one field
ForgedHeaders(p) ==
    LET st == ratchet[p]
    IN  {MessageHeader(EvilPublic, 0, n) : n \in {0, MAX_SKIP + 1}}
        \cup (IF is_some(st.dh_remote)
              THEN {MessageHeader(unwrap(st.dh_remote), 0, n) :
                      n \in {st.recv_counter, st.recv_counter + MAX_SKIP,
                             st.recv_counter + MAX_SKIP + 1}}
              ELSE {})
        \cup {e.header : e \in Range(sent[Peer(p)])}

Tampered(p) ==
    UNION {{[header |-> [e.header EXCEPT !.message_number = @ + 1],
             ciphertext |-> e.ciphertext],
            [header |-> [e.header EXCEPT !.previous_counter = @ + 1],
             ciphertext |-> e.ciphertext],
            [header |-> [e.header EXCEPT !.dh_public = EvilPublic],
             ciphertext |-> e.ciphertext]} : e \in Range(sent[Peer(p)])}

ForgeInputs(p) ==
    ({[header |-> h, ciphertext |-> c] : h \in ForgedHeaders(p), c \in {Garbage, Truncated}}
     \cup Tampered(p)) \ Range(sent[Peer(p)])

\* the network hands p a message the peer never sent
Forge(p) ==
    /\ adversary < MaxAdversary
    /\ \E f \in ForgeInputs(p) :
         LET st == ratchet[p]
             new_key == st.dh_remote # Some(f.header.dh_public)
             cached == skipped_get(st.skipped_keys, f.header.dh_public,
                                   f.header.message_number) # {}
         IN  \E out \in decrypt(st, f.header, f.ciphertext, rng) :
               /\ ratchet' = [ratchet EXCEPT ![p] = out.st]
               /\ rng' = rng + out.generated
               /\ tidy' = IF new_key /\ ~cached /\ out.tag # "Ok"
                          THEN tidy
                          ELSE [tidy EXCEPT ![p] = "disturbed"]
               /\ forgeries' = IF new_key /\ ~cached /\ out.tag # "Ok"
                               THEN [forgeries EXCEPT ![p] = @ + 1]
                               ELSE forgeries
               /\ last' = [op |-> "forge", party |-> p, tag |-> out.tag, pt |-> out.pt,
                           expect |-> 0, replay |-> FALSE, opened_before |-> FALSE,
                           new_key |-> new_key,
                           cached |-> cached,
                           ahead |-> f.header.message_number - st.recv_counter,
                           tampered |-> f \in Tampered(p)]
    /\ adversary' = adversary + 1
    /\ UNCHANGED <<sent, handed, accepted, reaccepted, cache_hits>>
    /\ UNCHANGED <<x3dhVars, relayVars, msgVars>>

---------------------------------------------------------------------------
(* Two session registries, the initial messages and envelopes they         *)
(* exchange, and a network that may hand an initial message over more than *)
(* once or with a one-time prekey id the responder never issued.           *)

NoEvent ==
    [op |-> "init", party |-> "alice", tag |-> "Ok", pt |-> 0, expect |-> 0,
     secret |-> None, peer_secret |-> None, genuine |-> FALSE, opk_id |-> None,
     opk_in_pool |-> FALSE, created |-> FALSE, drew |-> 0]

\* SessionManager::new for both parties (session.rs:274, 278)
X3dhInit ==
    /\ managers = [p \in Parties |->
                     IF p = "alice"
                     THEN SessionManager_from_identity(IdentityKeyPair(1), 1)
                     ELSE SessionManager_from_identity(IdentityKeyPair(2), 2)]
    /\ drawn = 0
    /\ initials = <<>>
    /\ wire = [p \in Parties |-> <<>>]
    /\ read = [p \in Parties |-> 0]
    /\ derived = <<>>
    /\ event = NoEvent

\* OsRng returns a scalar it has not returned before.  Each kind of call
\* draws from a range of its own, at a place the state already determines, so
\* that calls of different kinds commute: prekey generation, initiate_session,
\* receive_session, and the DH ratchet of decrypt.
FreshPrekey(p) == (IF p = "alice" THEN 100 ELSE 150) + managers[p].next_prekey_id

FreshInitiate == 200 + 3 * Len(initials)

FreshReceive == 300 + Len(derived)

FreshRatchet == 400 + drawn

\* p calls generate_one_time_prekeys(count)
GenerateOneTimePrekeys(p) ==
    /\ \E count \in 1..MaxPrekeys :
         /\ managers[p].next_prekey_id + count - 1 <= MaxPrekeys
         /\ managers' = [managers EXCEPT ![p] =
                           SessionManager_generate_one_time_prekeys(@, count,
                                                                    FreshPrekey(p))]
    /\ event' = [NoEvent EXCEPT !.op = "generate_one_time_prekeys", !.party = p]
    /\ UNCHANGED <<drawn, initials, wire, read, derived>>
    /\ UNCHANGED <<ratchetVars, relayVars, msgVars>>

\* the bundles an initiator may be handed for q: the one q's registry
\* publishes now, and that one with its signed prekey replaced, its signature
\* changed, or its signature cut short
BundlesOf(q) ==
    LET b == SessionManager_get_prekey_bundle(managers[q])
    IN  {b,
         [b EXCEPT !.signed_prekey = EvilPublic],
         [b EXCEPT !.signed_prekey_signature.msg = EvilPublic],
         [b EXCEPT !.signed_prekey_signature.len = SIGNATURE_LEN - 1]}

\* p calls initiate_session for its peer and puts the initial message and the
\* envelope on the network
InitiateSessionUpTo(p, bound) ==
    /\ Len(initials) < bound
    /\ \E b \in BundlesOf(Peer(p)) :
         LET x == SessionManager_initiate_session(managers[p], Peer(p), b,
                                                  FreshInitiate)
         IN  /\ managers' = [managers EXCEPT ![p] = x.m]
             /\ initials' = IF x.tag = "Ok"
                            THEN Append(initials, [from |-> p, to |-> Peer(p),
                                                   message |-> unwrap(x.message),
                                                   secret |-> x.secret])
                            ELSE initials
             /\ wire' = IF x.tag = "Ok"
                        THEN [wire EXCEPT ![p] = Append(@, unwrap(x.encrypted))]
                        ELSE wire
             /\ event' = [NoEvent EXCEPT !.op = "initiate_session", !.party = p,
                                         !.tag = x.tag, !.secret = x.secret,
                                         !.genuine = (b = SessionManager_get_prekey_bundle(
                                                             managers[Peer(p)])),
                                         !.created = (x.m.sessions # managers[p].sessions),
                                         !.drew = x.generated]
    /\ UNCHANGED <<drawn, read, derived>>
    /\ UNCHANGED <<ratchetVars, relayVars, msgVars>>

InitiateSession(p) == InitiateSessionUpTo(p, MaxInitiate)

\* the initial messages addressed to p
InitialsFor(p) == {i \in Range(initials) : i.to = p}

\* what the network may hand to p's receive_session: an initial message as
\* sent, or one renamed to a one-time prekey id p has not issued
InitialInputs(p) ==
    {i.message : i \in InitialsFor(p)}
    \cup {[i.message EXCEPT !.one_time_prekey_id = Some(managers[p].next_prekey_id)] :
            i \in InitialsFor(p)}

\* p calls receive_session
ReceiveSessionUpTo(p, bound) ==
    /\ Len(derived) < bound
    /\ \E m \in InitialInputs(p) :
         LET x == SessionManager_receive_session(managers[p], Peer(p), m, FreshReceive)
             sent_as == {i \in InitialsFor(p) : i.message = m}
         IN  /\ managers' = [managers EXCEPT ![p] = x.m]
             /\ derived' = Append(derived,
                                  [party |-> p, message |-> m, secret |-> x.secret,
                                   consumed |-> IF is_some(x.consumed)
                                                THEN Some(unwrap(x.consumed).key_pair.secret)
                                                ELSE None])
             /\ event' = [NoEvent EXCEPT
                            !.op = "receive_session", !.party = p, !.tag = x.tag,
                            !.secret = x.secret,
                            !.peer_secret = IF sent_as = {} THEN None
                                            ELSE (CHOOSE i \in sent_as : TRUE).secret,
                            !.genuine = (sent_as # {}),
                            !.opk_id = m.one_time_prekey_id,
                            !.opk_in_pool =
                                (/\ is_some(m.one_time_prekey_id)
                                 /\ is_some(position_of(managers[p].one_time_prekeys,
                                                        unwrap(m.one_time_prekey_id)))),
                            !.created = (x.m.sessions # managers[p].sessions)]
    /\ UNCHANGED <<drawn, initials, wire, read>>
    /\ UNCHANGED <<ratchetVars, relayVars, msgVars>>

ReceiveSession(p) == ReceiveSessionUpTo(p, MaxReceive)

\* p calls SessionManager::encrypt for its peer
SessionEncrypt(p) ==
    /\ Len(wire[p]) < MaxWire
    /\ LET x == SessionManager_encrypt(managers[p], Peer(p), Plaintext(p, Len(wire[p]) + 1))
       IN  /\ managers' = [managers EXCEPT ![p] = x.m]
           /\ wire' = IF x.tag = "Ok"
                      THEN [wire EXCEPT ![p] = Append(@, unwrap(x.envelope))]
                      ELSE wire
           /\ event' = [NoEvent EXCEPT !.op = "encrypt", !.party = p, !.tag = x.tag]
    /\ UNCHANGED <<drawn, initials, read, derived>>
    /\ UNCHANGED <<ratchetVars, relayVars, msgVars>>

\* the network hands p the next envelope of its peer and p calls
\* SessionManager::decrypt
SessionDecrypt(p) ==
    /\ read[p] < Len(wire[Peer(p)])
    /\ LET e == wire[Peer(p)][read[p] + 1]
       IN  \E x \in SessionManager_decrypt(managers[p], Peer(p), e, FreshRatchet) :
             /\ managers' = [managers EXCEPT ![p] = x.m]
             /\ drawn' = drawn + x.generated
             /\ event' = [NoEvent EXCEPT !.op = "decrypt", !.party = p, !.tag = x.tag,
                                         !.pt = x.pt, !.expect = e.ciphertext.pt]
    /\ read' = [read EXCEPT ![p] = @ + 1]
    /\ UNCHANGED <<initials, wire, derived>>
    /\ UNCHANGED <<ratchetVars, relayVars, msgVars>>

---------------------------------------------------------------------------
(* The relay's messaging: WebSocket connections (ws/handler.rs), the       *)
(* connection registry (ws/connection.rs), the messages table              *)
(* (db/messages.rs) and the handlers of SendMessage and AckMessages        *)
(* (ws/message.rs).  A handler is a task that other tasks interleave with  *)
(* at each of its awaits.                                                  *)

\* the users that connect
Clients == Parties

Handles == 1..MaxConnections

\* ServerMessage::Message and ServerMessage::MessageSent (message.rs:126, 144)
MessageFrame(row) ==
    [kind |-> "Message", id |-> row.id, sender_id |-> row.sender_id,
     ciphertext |-> row.ciphertext]

MessageSentFrame(message_id) ==
    [kind |-> "MessageSent", id |-> message_id, sender_id |-> "", ciphertext |-> <<>>]

\* String::into_bytes: the UTF-8 bytes of a text
into_bytes(content) == <<"utf8", content>>

\* EncryptedMessage::to_bytes (session.rs:108-111): the bincode bytes of an
\* envelope
EncryptedMessage_to_bytes(message) == <<"bincode", message>>

\* what the user of the terminal front-end types: nothing, or a text
Typed(user_id) == {0, Plaintext(user_id, 1)}

\* App::send_message (tui/app.rs:251-302) with a client connected: the
\* SendMessage frame it hands to the client, if any; conv is the selected
\* conversation, named by the peer's user id
App_send_message(content, conv) ==
    IF content = 0 \/ is_none(conv)
    THEN None
    ELSE Some([recipient_id |-> unwrap(conv), ciphertext |-> into_bytes(content)])

\* a store that answers with a row it has not inserted
store_message_uncommitted(table, sender_id, recipient_id, ciphertext, ok) ==
    IF ok
    THEN [tag |-> "Ok", table |-> table,
          row |-> Some([id |-> Len(table) + 1, sender_id |-> sender_id,
                        recipient_id |-> recipient_id, ciphertext |-> ciphertext,
                        delivered_at |-> None])]
    ELSE [tag |-> "Err", table |-> table, row |-> None]

\* db/messages.rs store_message: one INSERT .. RETURNING, which the database
\* commits (ok) or refuses.  created_at is the place of the row in the table.
store_message(table, sender_id, recipient_id, ciphertext, ok) ==
    IF ok
    THEN LET row == [id |-> Len(table) + 1, sender_id |-> sender_id,
                     recipient_id |-> recipient_id, ciphertext |-> ciphertext,
                     delivered_at |-> None]
         IN  [tag |-> "Ok", table |-> Append(table, row), row |-> Some(row)]
    ELSE [tag |-> "Err", table |-> table, row |-> None]

\* db/messages.rs get_undelivered: WHERE recipient_id = $1 AND delivered_at IS
\* NULL ORDER BY created_at ASC
get_undelivered(table, recipient_id) ==
    SelectSeq(table, LAMBDA r : r.recipient_id = recipient_id /\ is_none(r.delivered_at))

\* an UPDATE without the delivered_at IS NULL condition
mark_delivered_again(table, message_ids, at) ==
    [table |-> [i \in 1..Len(table) |->
                  IF table[i].id \in message_ids
                  THEN [table[i] EXCEPT !.delivered_at = Some(at)]
                  ELSE table[i]],
     count |-> Cardinality({i \in 1..Len(table) : table[i].id \in message_ids})]

\* db/messages.rs mark_delivered: SET delivered_at = NOW() WHERE id = ANY($1)
\* AND delivered_at IS NULL
mark_delivered(table, message_ids, at) ==
    [table |-> [i \in 1..Len(table) |->
                  IF table[i].id \in message_ids /\ is_none(table[i].delivered_at)
                  THEN [table[i] EXCEPT !.delivered_at = Some(at)]
                  ELSE table[i]],
     count |-> Cardinality({i \in 1..Len(table) :
                              table[i].id \in message_ids /\ is_none(table[i].delivered_at)})]

\* the HashMap<UserId, Vec<Connection>> of the ConnectionManager maps a user
\* to None when it has no entry for the user and to Some(handles) otherwise

\* ConnectionManager::add: entry(user_id).or_default().push(conn)
ConnectionManager_add(conns, user_id, sender) ==
    [conns EXCEPT ![user_id] = Some(Append(IF is_some(@) THEN unwrap(@) ELSE <<>>, sender))]

\* ConnectionManager::remove
ConnectionManager_remove(conns, user_id, sender) ==
    IF is_some(conns[user_id])
    THEN LET retained == SelectSeq(unwrap(conns[user_id]), LAMBDA c : c # sender)
         IN  [conns EXCEPT ![user_id] = IF retained = <<>> THEN None ELSE Some(retained)]
    ELSE conns

\* ConnectionManager::is_online
is_online(conns, user_id) == is_some(conns[user_id])

\* the connections send_to_user visits (connection.rs:55-56): those of the
\* user's entry, none when there is no entry
handles_of(conns, user_id) ==
    IF user_id \in DOMAIN conns /\ is_some(conns[user_id])
    THEN unwrap(conns[user_id])
    ELSE <<>>

\* mpsc::Sender::send(..).await (connection.rs:57): an error at once when the
\* receiver is gone, the frame queued when there is room, and no return for as
\* long as the queue is full
Sender_send(ch, message) ==
    IF ~ch.rx_open
    THEN {[tag |-> "Err", ch |-> ch]}
    ELSE IF Len(ch.queue) < MaxQueue
         THEN {[tag |-> "Ok", ch |-> [ch EXCEPT !.queue = Append(@, message)]]}
         ELSE {}

NoChannel == [queue |-> <<>>, rx_open |-> FALSE]

NoSocket ==
    [user_id |-> "alice", pc |-> "unused", stalled |-> FALSE, backlog |-> {},
     seen |-> [u \in Clients |-> 0], token |-> None]

NoTask == [pc |-> "idle", row |-> None, idx |-> 0]

NoNote == [op |-> "init", tag |-> "Ok", ids |-> {}, data |-> None, user_id |-> None]

MsgInit ==
    /\ connections = [u \in Clients |-> None]
    /\ channels = [h \in Handles |-> NoChannel]
    /\ sockets = [h \in Handles |-> NoSocket]
    /\ tasks = [h \in Handles |-> NoTask]
    /\ db_messages = <<>>
    /\ now = 1
    /\ note = NoNote

\* the handlers that hold the read lock of state.connections
ReadLocked == {h \in Handles : tasks[h].pc \in {"fanout", "confirm", "pong", "relay"}}

\* the tasks queued for its write lock; tokio's RwLock is fair, so a queued
\* writer goes before every reader that asks after it
WriteQueued == {h \in Handles : sockets[h].pc \in {"registering", "closing"}}

\* SHA-256 of a token (handler.rs:49-51)
Sha256(token) == <<"sha256", token>>

\* the sessions table: alice and bob each hold a session, bob's ends early, and
\* alice has an older one that has ended
db_sessions ==
    { [token_hash |-> Sha256("t_alice"), user_id |-> "alice", expires_at |-> 9],
      [token_hash |-> Sha256("t_bob"), user_id |-> "bob", expires_at |-> 2],
      [token_hash |-> Sha256("t_old"), user_id |-> "alice", expires_at |-> 0] }

\* the token query parameter of an upgrade request
Tokens == {None, Some("t_alice"), Some("t_bob"), Some("t_old"), Some("t_unknown")}

\* get_by_token_hash with no condition on expires_at
get_by_token_hash_any_expiry(table, token_hash, at) ==
    LET found == {r \in table : r.token_hash = token_hash}
    IN  IF found = {} THEN None ELSE Some(CHOOSE r \in found : TRUE)

\* sessions::get_by_token_hash (db/sessions.rs:41-55) at time at:
\* WHERE token_hash = $1 AND expires_at > NOW()
get_by_token_hash(table, token_hash, at) ==
    LET found == {r \in table : r.token_hash = token_hash /\ r.expires_at > at}
    IN  IF found = {} THEN None ELSE Some(CHOOSE r \in found : TRUE)

\* authenticate (handler.rs:45-60)
authenticate(token, at) ==
    IF is_none(token)
    THEN [tag |-> "Err", user_id |-> "alice"]
    ELSE LET session == get_by_token_hash(db_sessions, Sha256(unwrap(token)), at)
         IN  IF is_none(session)
             THEN [tag |-> "Err", user_id |-> "alice"]
             ELSE [tag |-> "Ok", user_id |-> unwrap(session).user_id]

\* ws_handler (handler.rs:28-42): a request without a session is answered 401
\* and leaves the relay as it was; otherwise the client is upgraded to a
\* WebSocket: handle_socket creates the channel (handler.rs:64-65) and asks for
\* the write lock
Connect(token) ==
    /\ LET auth == authenticate(token, now)
       IN  IF auth.tag = "Err"
           THEN UNCHANGED <<sockets, channels>>
           ELSE \E h \in Handles :
                  /\ sockets[h].pc = "unused"
                  /\ \A g \in 1..(h - 1) : sockets[g].pc # "unused"
                  /\ sockets' = [sockets EXCEPT
                                    ![h] = [NoSocket EXCEPT !.user_id = auth.user_id,
                                                            !.pc = "registering",
                                                            !.token = token]]
                  /\ channels' = [channels EXCEPT ![h] = [NoChannel EXCEPT !.rx_open = TRUE]]
    /\ UNCHANGED <<connections, tasks, db_messages, now, note>>
    /\ UNCHANGED <<ratchetVars, x3dhVars, relayVars>>

\* handle_socket registers the connection, spawns the forwarding task and
\* starts reading inbound frames (handler.rs:68-85)
Register(h) ==
    /\ sockets[h].pc = "registering"
    /\ ReadLocked = {}
    /\ connections' = ConnectionManager_add(connections, sockets[h].user_id, h)
    /\ sockets' = [sockets EXCEPT ![h].pc = "open",
                                  ![h].backlog =
                                      {r.id : r \in Range(get_undelivered(
                                                            db_messages, sockets[h].user_id))}]
    /\ UNCHANGED <<channels, tasks, db_messages, now, note>>
    /\ UNCHANGED <<ratchetVars, x3dhVars, relayVars>>

\* handle_send_message up to its first await after the store (message.rs:
\* 111-140): the row is inserted, or the error is returned to handle_socket,
\* which logs it
HandleSendMessage(h, recipient_id) ==
    /\ sockets[h].pc = "open"
    /\ tasks[h].pc = "idle"
    /\ Len(db_messages) < MaxStored
    /\ \E ok \in BOOLEAN : \E content \in Typed(sockets[h].user_id) :
         LET frame == App_send_message(content, Some(recipient_id))
             stored_msg == store_message(db_messages, sockets[h].user_id,
                                         unwrap(frame).recipient_id,
                                         unwrap(frame).ciphertext, ok)
         IN  /\ is_some(frame)
             /\ db_messages' = stored_msg.table
             /\ tasks' = IF stored_msg.tag = "Ok"
                         THEN [tasks EXCEPT ![h] = [pc |-> "stored", row |-> stored_msg.row,
                                                    idx |-> 0]]
                         ELSE tasks
             /\ note' = [op |-> "send_message", tag |-> stored_msg.tag,
                         ids |-> IF stored_msg.tag = "Ok"
                                 THEN {unwrap(stored_msg.row).id}
                                 ELSE {},
                         data |-> None, user_id |-> None]
    /\ UNCHANGED <<connections, channels, sockets, now>>
    /\ UNCHANGED <<ratchetVars, x3dhVars, relayVars>>

\* state.connections.read().await (message.rs:140 and 280), and send_to_user
\* finding no entry for the recipient (connection.rs:55)
AcquireRead(h) ==
    /\ tasks[h].pc \in {"stored", "ping"}
    /\ WriteQueued = {}
    /\ tasks' = [tasks EXCEPT ![h].pc =
                                  IF tasks[h].pc = "ping"
                                  THEN "pong"
                                  ELSE IF handles_of(connections, unwrap(tasks[h].row).recipient_id) = <<>>
                                       THEN "confirm"
                                       ELSE "fanout",
                              ![h].idx = 1]
    /\ UNCHANGED <<connections, channels, sockets, db_messages, now, note>>
    /\ UNCHANGED <<ratchetVars, x3dhVars, relayVars>>

\* one turn of the loop of send_to_user (connection.rs:56-58) made for the
\* handler of h, which goes on as `after` when the loop is over
send_to_user(h, user_id, message, after) ==
    LET t == tasks[h]
        conns == handles_of(connections, user_id)
        conn == conns[t.idx]
    IN  \E out \in Sender_send(channels[conn], message) :
          /\ channels' = [channels EXCEPT ![conn] = out.ch]
          /\ sockets' = IF out.tag = "Ok" /\ message.kind = "Message"
                        THEN [sockets EXCEPT ![conn].backlog = @ \ {message.id},
                                             ![conn].seen[message.sender_id] = message.id]
                        ELSE sockets
          /\ tasks' = [tasks EXCEPT ![h] = IF t.idx < Len(conns)
                                           THEN [t EXCEPT !.idx = @ + 1]
                                           ELSE after]

\* the Message frame goes to the next connection of the recipient
\* (message.rs:141)
Fanout(h) ==
    /\ tasks[h].pc = "fanout"
    /\ LET row == unwrap(tasks[h].row)
       IN  send_to_user(h, row.recipient_id, MessageFrame(row),
                        [tasks[h] EXCEPT !.pc = "confirm", !.idx = 1])
    /\ UNCHANGED <<connections, db_messages, now, note>>
    /\ UNCHANGED <<ratchetVars, x3dhVars, relayVars>>

\* the MessageSent frame goes to the next connection of the sender
\* (message.rs:144-151); after the last one the handler returns and the read
\* lock is released
Confirm(h) ==
    /\ tasks[h].pc = "confirm"
    /\ send_to_user(h, sockets[h].user_id, MessageSentFrame(unwrap(tasks[h].row).id),
                    NoTask)
    /\ UNCHANGED <<connections, db_messages, now, note>>
    /\ UNCHANGED <<ratchetVars, x3dhVars, relayVars>>

\* handle_ack_messages (message.rs:255-271)
HandleAckMessages(h, message_ids) ==
    /\ sockets[h].pc = "open"
    /\ tasks[h].pc = "idle"
    /\ now <= MaxAcks
    /\ LET marked == mark_delivered(db_messages, message_ids, now)
       IN  /\ db_messages' = marked.table
           /\ note' = [op |-> "ack_messages", tag |-> "Ok", ids |-> message_ids,
                       data |-> None, user_id |-> Some(sockets[h].user_id)]
    /\ now' = now + 1
    /\ UNCHANGED <<connections, channels, sockets, tasks>>
    /\ UNCHANGED <<ratchetVars, x3dhVars, relayVars>>

\* ClientMessage (messages.rs:7-69): the variants' names
ClientMessageTypes ==
    {"SendMessage", "GetPrekeyBundle", "UploadPrekeyBundle", "UploadOneTimePrekeys",
     "AckMessages", "Ping", "SubscribePresence", "TypingStart", "TypingStop",
     "AddReaction", "RemoveReaction", "MarkRead"}

Ping == [type |-> "Ping"]

\* a frame's bytes: the encoding that wrote them, the message it wrote, and
\* whether the bytes are valid UTF-8

\* json::encode_client_message (wire.rs:39-41): a text, so valid UTF-8
json_encode_client_message(msg) == [format |-> "json", utf8 |-> TRUE, msg |-> msg]

\* encode_client_message (wire.rs:15-17): bincode.  A variant without fields
\* is its tag alone, a small little-endian integer: bytes below 0x80,
\* which are valid UTF-8.
encode_client_message(msg) == [format |-> "bincode", utf8 |-> msg = Ping, msg |-> msg]

\* bytes that are neither: not UTF-8 and not a bincode ClientMessage
Noise == [format |-> "none", utf8 |-> FALSE, msg |-> [type |-> ""]]

\* the frames a client sends that are not modelled by an action of their own
InboundFrames ==
    {json_encode_client_message(Ping), encode_client_message(Ping),
     json_encode_client_message([type |-> "Bogus"]), Noise}

\* std::str::from_utf8(data).is_ok()
from_utf8_is_ok(data) == data.utf8

\* json::decode_client_message (wire.rs:43-45): serde_json::from_str
json_decode_client_message(text) ==
    IF text.format = "json" /\ text.msg.type \in ClientMessageTypes
    THEN [tag |-> "Ok", msg |-> text.msg]
    ELSE [tag |-> "Deserialization", msg |-> Ping]

\* decode_client_message (wire.rs:20-22): bincode::deserialize
decode_client_message(data) ==
    IF data.format = "bincode" /\ data.msg.type \in ClientMessageTypes
    THEN [tag |-> "Ok", msg |-> data.msg]
    ELSE [tag |-> "Deserialization", msg |-> Ping]

\* the decoding at the head of handle_message (message.rs:14-18)
handle_message_decode(data) ==
    IF from_utf8_is_ok(data)
    THEN json_decode_client_message(data)
    ELSE decode_client_message(data)

PongFrame == [kind |-> "Pong", id |-> 0, sender_id |-> "", ciphertext |-> <<>>]

\* handle_socket takes a Binary or Text frame and calls handle_message
\* (handler.rs:87-97), which decodes it (message.rs:14-18).  An error is
\* logged and the loop goes on; a Ping goes to handle_ping (message.rs:273-279).
HandleFrame(h, data) ==
    /\ sockets[h].pc = "open"
    /\ tasks[h].pc = "idle"
    /\ LET decoded == handle_message_decode(data)
       IN  /\ tasks' = IF decoded.tag = "Ok" /\ decoded.msg = Ping
                       THEN [tasks EXCEPT ![h] = [pc |-> "ping", row |-> None, idx |-> 0]]
                       ELSE tasks
           /\ note' = [op |-> "handle_message", tag |-> decoded.tag, ids |-> {},
                       data |-> Some(data), user_id |-> None]
    /\ UNCHANGED <<connections, channels, sockets, db_messages, now>>
    /\ UNCHANGED <<ratchetVars, x3dhVars, relayVars>>

\* handle_ping: the Pong frame goes to the next connection of the user
\* (message.rs:280-281)
Pong(h) ==
    /\ tasks[h].pc = "pong"
    /\ send_to_user(h, sockets[h].user_id, PongFrame, NoTask)
    /\ UNCHANGED <<connections, db_messages, now, note>>
    /\ UNCHANGED <<ratchetVars, x3dhVars, relayVars>>

\* the conversation ids a client puts into a frame: a UUID of its choice,
\* here the one that is also the user id of alice, the case
\* extract_recipient_from_conversation is written for
ConversationIds == {"alice"}

\* ServerMessage::TypingIndicator as handle_typing_start and handle_typing_stop
\* build it, with a user id taken from the frame the client sent
TypingIndicator_claimed(sender_id, conversation_id, is_typing) ==
    [kind |-> "TypingIndicator", user_id |-> conversation_id,
     conversation_id |-> conversation_id, is_typing |-> is_typing]

\* ServerMessage::TypingIndicator as handle_typing_start and handle_typing_stop
\* build it (message.rs:316-320, 338-342)
TypingIndicator(sender_id, conversation_id, is_typing) ==
    [kind |-> "TypingIndicator", user_id |-> sender_id,
     conversation_id |-> conversation_id, is_typing |-> is_typing]

\* ServerMessage::ReactionAdded and ReactionRemoved as handle_add_reaction and
\* handle_remove_reaction build them (message.rs:365-370, 399-404); the
\* message id and the emoji are passed through and left out here
Reaction(sender_id, conversation_id, added) ==
    [kind |-> IF added THEN "ReactionAdded" ELSE "ReactionRemoved",
     user_id |-> sender_id, conversation_id |-> conversation_id]

\* extract_recipient_from_conversation (message.rs:456-466): the conversation
\* id read as a user id
extract_recipient_from_conversation(sender_id, conversation_id) == conversation_id

\* handle_typing_start and handle_typing_stop up to their await of the read
\* lock (message.rs:310-350): the frame is built for the recipient the client
\* named
HandleTyping(h, recipient_id, conversation_id, is_typing) ==
    /\ sockets[h].pc = "open"
    /\ tasks[h].pc = "idle"
    /\ tasks' = [tasks EXCEPT ![h] =
                    [pc |-> "relay_wait",
                     row |-> Some([frame |-> TypingIndicator(sockets[h].user_id,
                                                             conversation_id, is_typing),
                                   targets |-> <<recipient_id>>]),
                     idx |-> 0]]
    /\ UNCHANGED <<connections, channels, sockets, db_messages, now, note>>
    /\ UNCHANGED <<ratchetVars, x3dhVars, relayVars>>

\* handle_add_reaction and handle_remove_reaction up to their await of the
\* read lock (message.rs:352-420): the frame goes to the user the
\* conversation id names and back to the sender
HandleReaction(h, conversation_id, added) ==
    /\ sockets[h].pc = "open"
    /\ tasks[h].pc = "idle"
    /\ tasks' = [tasks EXCEPT ![h] =
                    [pc |-> "relay_wait",
                     row |-> Some([frame |-> Reaction(sockets[h].user_id,
                                                      conversation_id, added),
                                   targets |-> <<extract_recipient_from_conversation(
                                                     sockets[h].user_id, conversation_id),
                                                 sockets[h].user_id>>]),
                     idx |-> 0]]
    /\ UNCHANGED <<connections, channels, sockets, db_messages, now, note>>
    /\ UNCHANGED <<ratchetVars, x3dhVars, relayVars>>

\* the handler continues as: the targets that have connections are visited in
\* turn, and the handler returns when none is left
relay_next(h, frame, targets) ==
    LET online == SelectSeq(targets, LAMBDA u : handles_of(connections, u) # <<>>)
    IN  IF online = <<>>
        THEN NoTask
        ELSE [pc |-> "relay", row |-> Some([frame |-> frame, targets |-> online]),
              idx |-> 1]

\* state.connections.read().await of the typing and reaction handlers
\* (message.rs:326, 348, 376, 410)
RelayAcquire(h) ==
    /\ tasks[h].pc = "relay_wait"
    /\ WriteQueued = {}
    /\ tasks' = [tasks EXCEPT ![h] = relay_next(h, unwrap(tasks[h].row).frame,
                                                unwrap(tasks[h].row).targets)]
    /\ UNCHANGED <<connections, channels, sockets, db_messages, now, note>>
    /\ UNCHANGED <<ratchetVars, x3dhVars, relayVars>>

\* the frame goes to the next connection of the user send_to_user is called
\* for (message.rs:327, 349, 378-380, 411-412)
Relay(h) ==
    /\ tasks[h].pc = "relay"
    /\ LET job == unwrap(tasks[h].row)
       IN  send_to_user(h, job.targets[1], job.frame,
                        relay_next(h, job.frame, Tail(job.targets)))
    /\ UNCHANGED <<connections, db_messages, now, note>>
    /\ UNCHANGED <<ratchetVars, x3dhVars, relayVars>>

\* the forwarding task takes a frame off the queue and the socket accepts it
\* (handler.rs:77-78)
Drain(h) ==
    /\ channels[h].rx_open
    /\ channels[h].queue # <<>>
    /\ ~sockets[h].stalled
    /\ channels' = [channels EXCEPT ![h].queue = Tail(@)]
    /\ UNCHANGED <<connections, sockets, tasks, db_messages, now, note>>
    /\ UNCHANGED <<ratchetVars, x3dhVars, relayVars>>

\* json::encode_server_message followed by into_bytes (wire.rs:47-49,
\* message.rs:135-138): the bytes of a JSON text
json_encode_server_message(msg) == [format |-> "json", utf8 |-> TRUE, msg |-> msg]

\* json::decode_server_message (wire.rs:51-53)
json_decode_server_message(text) ==
    IF text.format = "json" THEN Some(text.msg) ELSE None

\* the forwarding task wraps the queued bytes into a WebSocket frame
\* (handler.rs:78): always a Binary one
forward(data) == [kind |-> "Binary", data |-> data]

\* the reader task of the terminal client (chai-cli network/client.rs:38-49):
\* what it passes to the incoming channel for one WebSocket frame.  Only a
\* Text frame is looked at.
Client_read(msg) ==
    IF msg.kind = "Text" THEN json_decode_server_message(msg.data) ELSE None

\* the forwarding task takes a frame off the queue, the socket accepts it
\* (handler.rs:77-78) and the reader task of a terminal client at the other
\* end takes it up (client.rs:39-47)
ClientRead(h) ==
    /\ channels[h].rx_open
    /\ channels[h].queue # <<>>
    /\ ~sockets[h].stalled
    /\ LET frame == Head(channels[h].queue)
           got == Client_read(forward(json_encode_server_message(frame)))
       IN  note' = [op |-> "client_read",
                    tag |-> IF got = Some(frame) THEN "Ok" ELSE "Discarded",
                    ids |-> {}, data |-> Some(frame),
                    user_id |-> Some(sockets[h].user_id)]
    /\ channels' = [channels EXCEPT ![h].queue = Tail(@)]
    /\ UNCHANGED <<connections, sockets, tasks, db_messages, now>>
    /\ UNCHANGED <<ratchetVars, x3dhVars, relayVars>>

\* the client stops reading from its socket and stays connected
Stall(h) ==
    /\ sockets[h].pc = "open"
    /\ ~sockets[h].stalled
    /\ sockets' = [sockets EXCEPT ![h].stalled = TRUE]
    /\ UNCHANGED <<connections, channels, tasks, db_messages, now, note>>
    /\ UNCHANGED <<ratchetVars, x3dhVars, relayVars>>

\* the forwarding task takes a frame off the queue, the socket refuses it and
\* the task ends, which drops the receiving half of the channel
\* (handler.rs:78-80)
SocketError(h) ==
    /\ channels[h].rx_open
    /\ channels[h].queue # <<>>
    /\ channels' = [channels EXCEPT ![h].queue = <<>>, ![h].rx_open = FALSE]
    /\ UNCHANGED <<connections, sockets, tasks, db_messages, now, note>>
    /\ UNCHANGED <<ratchetVars, x3dhVars, relayVars>>

\* the inbound stream ends (Close, an error, or end of stream) and
\* handle_socket asks for the write lock (handler.rs:105-118)
Disconnect(h) ==
    /\ sockets[h].pc = "open"
    /\ tasks[h].pc = "idle"
    /\ sockets' = [sockets EXCEPT ![h].pc = "closing"]
    /\ UNCHANGED <<connections, channels, tasks, db_messages, now, note>>
    /\ UNCHANGED <<ratchetVars, x3dhVars, relayVars>>

\* handle_socket removes the connection and aborts the forwarding task
\* (handler.rs:117-122)
Cleanup(h) ==
    /\ sockets[h].pc = "closing"
    /\ ReadLocked = {}
    /\ connections' = ConnectionManager_remove(connections, sockets[h].user_id, h)
    /\ channels' = [channels EXCEPT ![h] = NoChannel]
    /\ sockets' = [sockets EXCEPT ![h] = [NoSocket EXCEPT !.pc = "closed"]]
    /\ UNCHANGED <<tasks, db_messages, now, note>>
    /\ UNCHANGED <<ratchetVars, x3dhVars, relayVars>>

Init == RatchetInit /\ X3dhInit /\ RelayInit /\ MsgInit

Next ==
    \/ \E p \in Parties : Encrypt(p)
    \/ \E p \in Parties : \E i \in 1..MaxSend : Deliver(p, i)
    \/ \E p \in Parties : Forge(p)

Spec == Init /\ [][Next]_vars

---------------------------------------------------------------------------
(* The same two ratchets over a network that only reorders and drops.      *)

\* the network hands p an envelope p has not been handed before
DeliverFresh(p) == \E i \in 1..MaxSend : i \notin handed[p] /\ Deliver(p, i)

NextHonest ==
    \/ \E p \in Parties : Encrypt(p)
    \/ \E p \in Parties : DeliverFresh(p)

SpecHonest == Init /\ [][NextHonest]_vars

---------------------------------------------------------------------------
(* A one-way burst: alice sends more messages than the skipped-key cache   *)
(* holds, and the network hands them to bob in any order.                  *)

\* the length of alice's burst
MaxBurst == 5

EncryptBurst == EncryptUpTo("alice", MaxBurst)

DeliverBurst == \E i \in 1..MaxBurst : i \notin handed["bob"] /\ Deliver("bob", i)

NextBurst == EncryptBurst \/ DeliverBurst

SpecBurst == Init /\ [][NextBurst]_vars

---------------------------------------------------------------------------
(* Sessions written to storage and read back between the messages of the   *)
(* same honest conversation.                                               *)

\* what serde writes for a DoubleRatchet (ratchet.rs:106-129): every field
\* but dh_self, which is #[serde(skip)]
DoubleRatchet_serialize(st) ==
    [dh_self_bytes |-> st.dh_self_bytes,
     dh_remote |-> st.dh_remote,
     root_key |-> st.root_key,
     chain_key_send |-> st.chain_key_send,
     chain_key_recv |-> st.chain_key_recv,
     send_counter |-> st.send_counter,
     recv_counter |-> st.recv_counter,
     previous_counter |-> st.previous_counter,
     skipped_keys |-> st.skipped_keys]

\* what serde reads back: dh_self is its default, None
DoubleRatchet_deserialize(fields) ==
    [dh_self |-> None,
     dh_self_bytes |-> fields.dh_self_bytes,
     dh_remote |-> fields.dh_remote,
     root_key |-> fields.root_key,
     chain_key_send |-> fields.chain_key_send,
     chain_key_recv |-> fields.chain_key_recv,
     send_counter |-> fields.send_counter,
     recv_counter |-> fields.recv_counter,
     previous_counter |-> fields.previous_counter,
     skipped_keys |-> fields.skipped_keys]

\* an import that leaves the DH pair as serde read it
restore_keys_forgotten(st) == st

\* DoubleRatchet::restore_keys
restore_keys(st) ==
    IF is_some(st.dh_self_bytes)
    THEN [st EXCEPT !.dh_self = Some(DHKeyPair(unwrap(st.dh_self_bytes)))]
    ELSE st

\* DoubleRatchet::export
DoubleRatchet_export(st) == <<"bincode", "DoubleRatchet", DoubleRatchet_serialize(st)>>

\* DoubleRatchet::import
DoubleRatchet_import(data) ==
    IF Len(data) = 3 /\ data[1] = "bincode" /\ data[2] = "DoubleRatchet"
    THEN [tag |-> "Ok", st |-> Some(restore_keys(DoubleRatchet_deserialize(data[3])))]
    ELSE [tag |-> "DeserializationError", st |-> None]

\* Session::export
Session_export(session) ==
    <<"bincode", "Session",
      [peer_id |-> session.peer_id,
       ratchet |-> DoubleRatchet_serialize(session.ratchet),
       is_initiator |-> session.is_initiator]>>

\* Session::import
Session_import(data) ==
    IF Len(data) = 3 /\ data[1] = "bincode" /\ data[2] = "Session"
    THEN [tag |-> "Ok",
          session |-> Some([peer_id |-> data[3].peer_id,
                            ratchet |-> restore_keys(DoubleRatchet_deserialize(
                                                       data[3].ratchet)),
                            is_initiator |-> data[3].is_initiator])]
    ELSE [tag |-> "DeserializationError", session |-> None]

\* the session of p that holds p's ratchet (session.rs:12-19)
SessionOf(p) ==
    [peer_id |-> Peer(p), ratchet |-> ratchet[p], is_initiator |-> (p = "alice")]

\* p exports its session, drops it, and goes on with the imported one
Restore(p) ==
    /\ LET got == Session_import(Session_export(SessionOf(p)))
       IN  /\ ratchet' = IF got.tag = "Ok"
                         THEN [ratchet EXCEPT ![p] = unwrap(got.session).ratchet]
                         ELSE ratchet
           /\ last' = [op |-> "import", party |-> p, tag |-> got.tag, pt |-> 0,
                       expect |-> 0, replay |-> FALSE, opened_before |-> FALSE,
                       new_key |-> FALSE, cached |-> FALSE, ahead |-> 0, tampered |-> FALSE]
    /\ UNCHANGED <<rng, sent, handed, accepted, reaccepted, cache_hits, tidy, forgeries,
                   adversary>>
    /\ UNCHANGED <<x3dhVars, relayVars, msgVars>>

NextStorage ==
    \/ \E p \in Parties : Encrypt(p)
    \/ \E p \in Parties : DeliverFresh(p)
    \/ \E p \in Parties : Restore(p)

SpecStorage == Init /\ [][NextStorage]_vars

---------------------------------------------------------------------------
(* The two ratchets late in a one-way conversation: alice has sent, and    *)
(* bob has received, almost as many messages as the counters can count.    *)

\* how far below U32_MAX the conversation is taken up
MaxNear == 2

\* how many times a party goes on calling encrypt after the counter is full
MaxOverflow == 2

\* the ratchets once bob has received alice's first message
Settled ==
    LET out == encrypt(init_sender(TestSecret, DHKeyPair(1).public, 2), Plaintext("alice", 1))
        e == unwrap(out.envelope)
        got == CHOOSE d \in decrypt(init_receiver(TestSecret, DHKeyPair(1)),
                                    e.header, e.ciphertext, 3) : d.tag = "Ok"
    IN  [alice |-> out.st, bob |-> got.st]

\* alice has sent U32_MAX - k messages in her first chain and bob has received
\* them all
InitNear ==
    /\ \E k \in 0..MaxNear :
         ratchet = [p \in Parties |->
                      IF p = "alice"
                      THEN [Settled.alice EXCEPT !.send_counter = U32_MAX - k]
                      ELSE [Settled.bob EXCEPT !.recv_counter = U32_MAX - k]]
    /\ rng = 4
    /\ sent = [p \in Parties |-> <<>>]
    /\ handed = [p \in Parties |-> {}]
    /\ accepted = [p \in Parties |-> {}]
    /\ reaccepted = [p \in Parties |-> {}]
    /\ cache_hits = [p \in Parties |-> {}]
    /\ tidy = [p \in Parties |-> "orderly"]
    /\ forgeries = [p \in Parties |-> 0]
    /\ adversary = 0
    /\ last = [op |-> "init", party |-> "alice", tag |-> "Ok", pt |-> 0,
               expect |-> 0, replay |-> FALSE, opened_before |-> FALSE, new_key |-> FALSE,
               cached |-> FALSE, ahead |-> 0, tampered |-> FALSE]
    /\ X3dhInit /\ RelayInit /\ MsgInit

\* encrypt, called at most MaxOverflow times on a full counter
EncryptNear(p) ==
    /\ is_some(ratchet[p].chain_key_send)
    /\ unwrap(ratchet[p].chain_key_send).n <= MaxSend + MaxOverflow
    /\ Encrypt(p)

NextOverflow ==
    \/ \E p \in Parties : EncryptNear(p)
    \/ \E p \in Parties : DeliverFresh(p)

SpecOverflow == InitNear /\ [][NextOverflow]_vars

---------------------------------------------------------------------------
(* A longer conversation over a network that delivers each direction in    *)
(* the order sent or one envelope early, and may replay what it delivered. *)

EncryptChat(p) == EncryptUpTo(p, IF p = "alice" THEN MaxChat ELSE MaxReply)

\* the first envelope of the peer that p has not been handed
Lowest(p) == CHOOSE i \in 1..(Len(sent[Peer(p)]) + 1) :
                 i \notin handed[p] /\ \A j \in 1..(i - 1) : j \in handed[p]

\* the next envelope of the peer, in the order sent
DeliverNext(p) == Deliver(p, Lowest(p))

\* the envelope after it, overtaking one
DeliverAhead(p) == Lowest(p) + 1 \notin handed[p] /\ Deliver(p, Lowest(p) + 1)

\* an envelope p was handed before
Replay(p) == \E i \in handed[p] : Deliver(p, i)

NextChat ==
    \/ \E p \in Parties : EncryptChat(p)
    \/ \E p \in Parties : DeliverNext(p)
    \/ \E p \in Parties : DeliverAhead(p)
    \/ \E p \in Parties : Replay(p)

SpecChat == Init /\ [][NextChat]_vars

---------------------------------------------------------------------------
(* The session registries on their own: handshakes only, and handshakes    *)
(* followed by messages.  alice is the initiator and bob the responder of  *)
(* every handshake.                                                        *)

NextHandshake ==
    \/ GenerateOneTimePrekeys("bob")
    \/ InitiateSession("alice")
    \/ ReceiveSession("bob")

SpecHandshake == Init /\ [][NextHandshake]_vars

NextSession ==
    \/ GenerateOneTimePrekeys("bob")
    \/ InitiateSessionUpTo("alice", MaxHandshake)
    \/ ReceiveSessionUpTo("bob", MaxHandshake + 1)
    \/ \E p \in Parties : SessionEncrypt(p)
    \/ \E p \in Parties : SessionDecrypt(p)

SpecSession == Init /\ [][NextSession]_vars

---------------------------------------------------------------------------
(* The relay's prekey store on its own.                                    *)

NextRelay ==
    \/ UploadPrekeyBundle
    \/ UploadOneTimePrekeys
    \/ StoreOneTimePrekey
    \/ \E r \in 1..MaxRequests : RequestBundle(r)
    \/ \E r \in 1..MaxRequests : FetchUser(r)
    \/ \E r \in 1..MaxRequests : FetchBundle(r)
    \/ \E r \in 1..MaxRequests : ConsumeSelect(r)
    \/ \E r \in 1..MaxRequests : ConsumeUpdate(r)
    \/ \E r \in 1..MaxRequests : CountRemaining(r)
    \/ \E r \in 1..MaxRequests : Respond(r)

SpecRelay == Init /\ [][NextRelay]_vars

---------------------------------------------------------------------------
(* The relay's messaging on its own, with clients that read their sockets; *)
(* the delivery of messages without the acknowledgements, to clients that  *)
(* may stop reading; and the delivery under the scheduling the runtime     *)
(* gives: a task that can take its next step takes it, and the forwarding  *)
(* task of a client that reads its socket takes the frames off its queue.  *)

NextMessaging ==
    \/ \E t \in Tokens : Connect(t)
    \/ \E h \in Handles : Register(h)
    \/ \E h \in Handles : \E u \in Clients : HandleSendMessage(h, u)
    \/ \E h \in Handles : AcquireRead(h)
    \/ \E h \in Handles : Fanout(h)
    \/ \E h \in Handles : Confirm(h)
    \/ \E h \in Handles : \E ids \in SUBSET (1..MaxStored) \ {{}} : HandleAckMessages(h, ids)
    \/ \E h \in Handles : Drain(h)
    \/ \E h \in Handles : SocketError(h)
    \/ \E h \in Handles : Disconnect(h)
    \/ \E h \in Handles : Cleanup(h)

SpecMessaging == Init /\ [][NextMessaging]_vars

NextDelivery ==
    \/ \E t \in Tokens : Connect(t)
    \/ \E h \in Handles : Register(h)
    \/ \E h \in Handles : \E u \in Clients : HandleSendMessage(h, u)
    \/ \E h \in Handles : AcquireRead(h)
    \/ \E h \in Handles : Fanout(h)
    \/ \E h \in Handles : Confirm(h)
    \/ \E h \in Handles : Drain(h)
    \/ \E h \in Handles : Stall(h)
    \/ \E h \in Handles : SocketError(h)
    \/ \E h \in Handles : Disconnect(h)
    \/ \E h \in Handles : Cleanup(h)

SpecDelivery == Init /\ [][NextDelivery]_vars

NextFrames ==
    \/ \E t \in Tokens : Connect(t)
    \/ \E h \in Handles : Register(h)
    \/ \E h \in Handles : \E data \in InboundFrames : HandleFrame(h, data)
    \/ \E h \in Handles : \E u \in Clients : HandleSendMessage(h, u)
    \/ \E h \in Handles : AcquireRead(h)
    \/ \E h \in Handles : Fanout(h)
    \/ \E h \in Handles : Confirm(h)
    \/ \E h \in Handles : Pong(h)
    \/ \E h \in Handles : Drain(h)
    \/ \E h \in Handles : Disconnect(h)
    \/ \E h \in Handles : Cleanup(h)

SpecFrames == Init /\ [][NextFrames]_vars

\* the SendMessage frames handled next to the typing and reaction frames
MaxRelayed == 1

NextRelayed ==
    \/ \E t \in Tokens : Connect(t)
    \/ \E h \in Handles : Register(h)
    \/ \E h \in Handles : \E u \in Clients :
         Len(db_messages) < MaxRelayed /\ HandleSendMessage(h, u)
    \/ \E h \in Handles : \E u \in Clients : \E c \in ConversationIds :
         \E is_typing \in BOOLEAN : HandleTyping(h, u, c, is_typing)
    \/ \E h \in Handles : \E c \in ConversationIds : \E added \in BOOLEAN :
         HandleReaction(h, c, added)
    \/ \E h \in Handles : AcquireRead(h)
    \/ \E h \in Handles : RelayAcquire(h)
    \/ \E h \in Handles : Fanout(h)
    \/ \E h \in Handles : Confirm(h)
    \/ \E h \in Handles : Relay(h)
    \/ \E h \in Handles : Drain(h)
    \/ \E h \in Handles : Disconnect(h)
    \/ \E h \in Handles : Cleanup(h)

SpecRelayed == Init /\ [][NextRelayed]_vars

\* the relay with terminal clients at the other end of its connections
NextClient ==
    \/ \E t \in Tokens : Connect(t)
    \/ \E h \in Handles : Register(h)
    \/ \E h \in Handles : \E u \in Clients : HandleSendMessage(h, u)
    \/ \E h \in Handles : AcquireRead(h)
    \/ \E h \in Handles : Fanout(h)
    \/ \E h \in Handles : Confirm(h)
    \/ \E h \in Handles : ClientRead(h)
    \/ \E h \in Handles : Disconnect(h)
    \/ \E h \in Handles : Cleanup(h)

SpecClient == Init /\ [][NextClient]_vars

Scheduling ==
    \A h \in Handles :
        /\ WF_vars(Register(h))
        /\ WF_vars(AcquireRead(h))
        /\ WF_vars(Fanout(h))
        /\ WF_vars(Confirm(h))
        /\ WF_vars(Drain(h))
        /\ WF_vars(Cleanup(h))

SpecDeliveryFair == SpecDelivery /\ Scheduling

---------------------------------------------------------------------------
(* Properties of the Double Ratchet                                        *)

\* the last step was a decrypt call on an envelope the peer sent
Decrypted == last.op = "decrypt"

\* the last decrypt call returned the plaintext the peer encrypted
Opened == last.tag = "Ok" /\ last.pt = last.expect

\* C1: a decrypt call that returns DecryptionFailed leaves the whole ratchet
\* state (root key, both chain keys, the DH keys, the three counters and the
\* skipped-key cache) as it was before the call.
C1_FailedDecryptKeepsState ==
    [][(last'.op \in {"decrypt", "forge"} /\ last'.tag = "DecryptionFailed")
         => ratchet' = ratchet]_vars

\* C2: after one forged message that carries a DH public key the receiver has
\* not seen and that the receiver rejects, the next genuine message, delivered
\* in order and for the first time, is still decrypted to its plaintext.
C2_ForgeryDoesNotDesynchronize ==
    (/\ Decrypted
     /\ ~last.replay
     /\ forgeries[last.party] = 1
     /\ \A p \in Parties : tidy[p] = "orderly")
        => Opened

\* every envelope sent so far has a message number below MAX_SKIP: no sending
\* chain holds more than MAX_SKIP messages
InWindow ==
    \A p \in Parties : \A e \in Range(sent[p]) : e.header.message_number < MAX_SKIP

\* C3: when no chain holds more than MAX_SKIP messages and the network delivers
\* the messages of each chain in any order, each at most once and no chain
\* before an older one is complete, every message decrypts to its plaintext.
C3_ReorderWithinWindow ==
    (Decrypted /\ InWindow /\ \A p \in Parties : tidy[p] # "disturbed") => Opened

\* MAX_SKIP messages of one chain arrived last-first: all but the first one
\* handed over were opened with a key from the skipped-key cache
C3_Witness ==
    \E p \in Parties :
        /\ Decrypted /\ last.party = p /\ Opened /\ last.cached
        /\ InWindow
        /\ tidy[p] = "reordered"
        /\ accepted[p] = 1..MAX_SKIP
        /\ Cardinality(cache_hits[p]) = MAX_SKIP - 1

\* C5: messages delivered in the order sent, in both directions and in any
\* alternation of the two, decrypt to the plaintext that was encrypted; so does
\* the first reply of the responder.
C5_RoundTripInOrder ==
    (Decrypted /\ \A p \in Parties : tidy[p] = "orderly") => Opened

\* the initiator has just opened the first reply of the responder
C5_Witness ==
    /\ Decrypted /\ last.party = "alice" /\ Opened
    /\ last.pt = Plaintext("bob", 1)
    /\ last.new_key
    /\ accepted["bob"] # {}
    /\ \A p \in Parties : tidy[p] = "orderly"

C10_CountersMonotonic ==
    [][\A p \in Parties :
         LET a == ratchet[p]
             b == ratchet'[p]
         IN  /\ b.dh_remote = a.dh_remote => b.recv_counter >= a.recv_counter
             /\ b.dh_self = a.dh_self => b.send_counter >= a.send_counter
             /\ b.dh_remote # a.dh_remote =>
                  /\ b.previous_counter = a.send_counter
                  /\ b.send_counter = 0]_vars

\* C11: a decrypt of a message that was not opened with a skipped key and
\* whose counter is more than MAX_SKIP ahead of recv_counter returns
\* MessageTooOld and leaves the ratchet as it was, for the current remote key
\* and for a new one.
C11_OutOfWindowKeepsState ==
    [][(last'.op \in {"decrypt", "forge"} /\ ~last'.cached /\ last'.ahead > MAX_SKIP)
          => (last'.tag = "MessageTooOld" /\ ratchet' = ratchet)]_vars

\* C12: a ratchet never holds more than MAX_SKIP skipped message keys,
\* whatever is delivered to it and however many receive chains it has had.
C12_SkippedKeysBounded ==
    \A p \in Parties : Cardinality(ratchet[p].skipped_keys) <= MAX_SKIP

\* a ratchet with a full map that has skipped more positions than the map
\* holds and has used none of the stored keys: one was trimmed away
C12_Witness ==
    \E p \in Parties :
        /\ Cardinality(ratchet[p].skipped_keys) = MAX_SKIP
        /\ cache_hits[p] = {}
        /\ last.op = "forge" /\ last.party = p /\ ~last.cached /\ ~last.new_key
        /\ ratchet[p].recv_counter - Cardinality(handed[p]) - adversary > MAX_SKIP

\* a genuine ciphertext under a header changed in one field was handed over
TamperedDelivered == last.op = "forge" /\ last.tampered

---------------------------------------------------------------------------
(* Properties of X3DH and the session registry                             *)

\* one initial message was sent and the responder processed it, once and as
\* sent
OneHandshake ==
    /\ Len(initials) = 1
    /\ Len(derived) = 1
    /\ derived[1].message = initials[1].message

\* the last receive_session call was the first one on its initial message
FirstProcessing ==
    \A k \in 1..(Len(derived) - 1) : derived[k].message # derived[Len(derived)].message

\* C4: when the responder's receive_session processes the initial message the
\* initiator's initiate_session produced, both derive the same shared secret;
\* after that one handshake every envelope, the initiator's first message and
\* the responder's reply included, decrypts to its plaintext.
C4_X3DHAgreement ==
    /\ (event.op = "receive_session" /\ event.genuine /\ event.tag = "Ok"
            /\ FirstProcessing)
           => event.secret = event.peer_secret
    /\ (event.op = "decrypt" /\ OneHandshake)
           => (event.tag = "Ok" /\ event.pt = event.expect)

\* C6: receive_session on an initial message that names a one-time prekey id
\* absent from the pool returns UnknownPreKeyId and creates no session.
C6_UnknownPrekeyRejected ==
    (event.op = "receive_session" /\ is_some(event.opk_id) /\ ~event.opk_in_pool)
        => (event.tag = "UnknownPreKeyId" /\ ~event.created)

\* C7: after receive_session succeeds on an initial message naming one-time
\* prekey id k, no prekey with id k is left in the registry's pool; and no
\* one-time prekey's private key enters the shared secret of more than one
\* receive_session call.
C7_OneTimePrekeyUsedOnce ==
    /\ (event.op = "receive_session" /\ event.tag = "Ok" /\ is_some(event.opk_id))
           => \A k \in 1..Len(managers[event.party].one_time_prekeys) :
                  managers[event.party].one_time_prekeys[k].id # unwrap(event.opk_id)
    /\ \A i, j \in 1..Len(derived) :
           (i # j /\ is_some(derived[i].consumed)) => derived[i].consumed # derived[j].consumed

\* the same initial message was processed twice: the first processing used the
\* one-time prekey it names, the second found none
C7_Witness ==
    \E i, j \in 1..Len(derived) :
        /\ i < j
        /\ derived[i].message = derived[j].message
        /\ is_some(derived[i].message.one_time_prekey_id)
        /\ is_some(derived[i].consumed)
        /\ is_none(derived[j].consumed)

\* an initiate_session was handed a bundle other than the one the peer publishes
AlteredBundleHandled == event.op = "initiate_session" /\ ~event.genuine

\* C14: the bundle a registry publishes verifies, and an initiate_session
\* handed a bundle with an altered signed prekey, an altered signature or a
\* signature of another length returns InvalidSignature having generated no key
\* (so before any DH), produces no initial message and no envelope, and leaves
\* the registry, its sessions included, as it was.
C14_BundleVerifiedBeforeDH ==
    /\ [](\A p \in Parties :
            PreKeyBundle_verify(SessionManager_get_prekey_bundle(managers[p])) = "Ok")
    /\ [][(event'.op = "initiate_session" /\ ~event'.genuine)
            => /\ event'.tag = "InvalidSignature"
               /\ event'.drew = 0
               /\ is_none(event'.secret)
               /\ ~event'.created
               /\ managers' = managers
               /\ initials' = initials
               /\ wire' = wire]_vars

\* an altered bundle was refused while a session with that peer existed
C14_Witness ==
    /\ AlteredBundleHandled
    /\ event.tag = "InvalidSignature"
    /\ is_some(managers[event.party].sessions[Peer(event.party)])
    /\ managers[Peer(event.party)].one_time_prekeys # <<>>

---------------------------------------------------------------------------
(* Properties of the relay's prekey store                                  *)

\* the one-time prekey id the answer to request r carries, if any
Carried(r) ==
    IF requests[r].pc = "done" /\ is_some(requests[r].bundle)
    THEN unwrap(requests[r].bundle).one_time_prekey_id
    ELSE None

\* the requests whose consume statement returned row k
Holders(k) ==
    {r \in 1..MaxRequests :
        /\ is_some(requests[r].otp)
        /\ requests[r].target = db_one_time_prekeys[k].user_id
        /\ unwrap(requests[r].otp).prekey_id = db_one_time_prekeys[k].prekey_id}

\* requests 1 and 2 were both made while bob had exactly one unused one-time
\* prekey, no other was ever stored, and both have been answered with a bundle
TwoRequestsOnePrekey ==
    /\ Len(db_one_time_prekeys) = 1
    /\ \A r \in {1, 2} :
         /\ requests[r].pc = "done"
         /\ requests[r].unused_at_start = 1
         /\ is_some(requests[r].bundle)

\* C8: under every interleaving of bundle requests (WebSocket and HTTP) and
\* one-time-prekey uploads, no stored one-time prekey (user_id, prekey_id) is
\* carried by two bundle answers; a row is used exactly when one request's
\* consume statement has returned it; and of two requests made while exactly
\* one unused prekey exists, exactly one is answered with it and the other
\* with one_time_prekey = None.
C8_PrekeyConsumedOnce ==
    /\ \A r1, r2 \in 1..MaxRequests :
         (r1 # r2 /\ is_some(Carried(r1)) /\ requests[r1].target = requests[r2].target)
             => Carried(r1) # Carried(r2)
    /\ \A k \in 1..Len(db_one_time_prekeys) :
         /\ Cardinality(Holders(k)) <= 1
         /\ db_one_time_prekeys[k].used <=> (Holders(k) # {})
    /\ TwoRequestsOnePrekey =>
         Cardinality({r \in {1, 2} : is_some(Carried(r))}) = 1

\* a WebSocket and an HTTP request raced for bob's only one-time prekey: one
\* found the row locked by the other and skipped it
C8_Witness ==
    /\ TwoRequestsOnePrekey
    /\ requests[1].kind # requests[2].kind
    /\ \E r \in {1, 2} : requests[r].skipped /\ is_none(Carried(r))
    /\ \E r \in {1, 2} : is_some(Carried(r))

---------------------------------------------------------------------------
(* Properties of the relay's messaging                                     *)

\* the ids of the rows of the messages table
StoredIds == {r.id : r \in Range(db_messages)}

\* the ids of the rows nobody has acknowledged
UndeliveredIds == {r.id : r \in {x \in Range(db_messages) : is_none(x.delivered_at)}}

\* the frame the handler of h is about to send, and the handle it goes to
Pending(h) ==
    LET t == tasks[h]
        row == unwrap(t.row)
    IN  IF t.pc = "fanout"
        THEN [to |-> handles_of(connections, row.recipient_id)[t.idx], frame |-> MessageFrame(row)]
        ELSE [to |-> handles_of(connections, sockets[h].user_id)[t.idx],
              frame |-> MessageSentFrame(row.id)]

\* the handler of h holds the read lock and its send does not return: the
\* queue it sends to is full and its receiver is alive
Blocked(h) ==
    /\ h \in ReadLocked
    /\ Sender_send(channels[Pending(h).to], Pending(h).frame) = {}

\* the ids of the rows whose fan-out has not been made yet
InFlight ==
    {unwrap(tasks[h].row).id : h \in {g \in Handles : tasks[g].pc \in {"stored", "fanout"}}}

\* C15: a connection that is processing an inbound frame has been sent every
\* message that was stored for its user with delivered_at null when it
\* registered, unless the message has been acknowledged since or its own
\* fan-out is still to come.
C15_BacklogSentOnConnect ==
    \A h \in Handles :
        (sockets[h].pc = "open" /\ tasks[h].pc # "idle")
            => (sockets[h].backlog \cap UndeliveredIds) \ InFlight = {}

\* the connection h cannot be given a frame any more: its client has stopped
\* reading or its forwarding task has ended
Unreceptive(h) == sockets[h].stalled \/ ~channels[h].rx_open

\* C16: under fair scheduling every SendMessage that a connection's handler
\* has stored leads to a MessageSent with its id being queued for that
\* connection, unless that connection itself stops taking frames; whatever
\* the connections of the recipient do.
C16_MessageSentEventually ==
    \A h \in Handles : \A id \in 1..MaxStored :
        (tasks[h].pc = "stored" /\ unwrap(tasks[h].row).id = id)
            ~> (MessageSentFrame(id) \in Range(channels[h].queue) \/ Unreceptive(h))

\* C17: every Message and MessageSent frame that is queued, and every frame a
\* handler is about to send, carries the id of a row that was in the table
\* before the step that queued it; and a SendMessage whose store failed
\* queues nothing and leaves no handler running.
C17_SentAfterCommit ==
    /\ [](\A h \in Handles :
            /\ \A f \in Range(channels[h].queue) : f.id \in StoredIds
            /\ tasks[h].pc # "idle" => unwrap(tasks[h].row).id \in StoredIds)
    /\ [][/\ \A h \in Handles :
               \A f \in Range(channels'[h].queue) \ Range(channels[h].queue) :
                   f.id \in StoredIds
          /\ (note' # note /\ note'.op = "send_message" /\ note'.tag = "Err")
                => (channels' = channels /\ tasks' = tasks /\ db_messages' = db_messages)
         ]_vars

\* a MessageSent is queued and the last SendMessage handled failed in the store
C17_Witness ==
    /\ note.op = "send_message" /\ note.tag = "Err"
    /\ \E h \in Handles : \E f \in Range(channels[h].queue) : f.kind = "MessageSent"
    /\ \E h \in Handles : \E f \in Range(channels[h].queue) : f.kind = "Message"

\* C18: while a fan-out cannot queue its frame for one connection of the
\* recipient, it is owed to no later connection of the recipient that would
\* take it: a failure on one handle does not hold up the others.
C18_FanoutNotDelayed ==
    \A h \in Handles :
        (tasks[h].pc = "fanout" /\ Blocked(h))
            => LET conns == handles_of(connections, unwrap(tasks[h].row).recipient_id)
               IN  \A j \in (tasks[h].idx + 1)..Len(conns) :
                       Sender_send(channels[conns[j]], Pending(h).frame) = {}

\* C19: no queue holds more than its capacity, and no handler waits on a full
\* queue while it holds the read lock of the registry.
C19_FullQueueNeverWaitedOn ==
    /\ \A h \in Handles : Len(channels[h].queue) <= MaxQueue
    /\ \A h \in Handles : ~Blocked(h)

\* C20: a row is stored with delivered_at null and is never removed or changed
\* but in delivered_at; delivered_at changes only from null to the time of an
\* AckMessages that names the row, every AckMessages that names a row with
\* delivered_at null sets it, and one that names a row already delivered
\* leaves the row as it is.
C20_DeliveredSetOnceByAck ==
    [][/\ Len(db_messages') >= Len(db_messages)
       /\ \A i \in (Len(db_messages) + 1)..Len(db_messages') :
              is_none(db_messages'[i].delivered_at)
       /\ \A i \in 1..Len(db_messages) :
              LET old == db_messages[i]
                  new == db_messages'[i]
                  acked == now' # now /\ note'.op = "ack_messages" /\ old.id \in note'.ids
              IN  /\ [new EXCEPT !.delivered_at = None] = [old EXCEPT !.delivered_at = None]
                  /\ new.delivered_at # old.delivered_at
                        => (acked /\ is_none(old.delivered_at)
                            /\ new.delivered_at = Some(now))
                  /\ acked => is_some(new.delivered_at)
                  /\ (acked /\ is_some(old.delivered_at)) => new = old
      ]_vars

\* the last AckMessages named a row that an earlier one had marked delivered
C20_Witness ==
    /\ note.op = "ack_messages"
    /\ \E r \in Range(db_messages) :
          /\ r.id \in note.ids
          /\ is_some(r.delivered_at)
          /\ unwrap(r.delivered_at) < now - 1

\* C21: the Message frames a connection is given from one sender come in the
\* order of their rows: the id of each is above the id of the one before it.
C21_PerSenderOrder ==
    [][\A h \in Handles : \A u \in Clients :
           sockets'[h].pc = sockets[h].pc => sockets'[h].seen[u] >= sockets[h].seen[u]]_vars

\* the bytes are the serialization of an envelope, not the bytes of a text
IsEnvelopeBytes(bytes) == bytes[1] = "bincode"

\* C22: the relay never holds plaintext: the ciphertext of every stored row and
\* of every Message frame queued to a connection is a serialized envelope,
\* never the bytes of the text the user typed.
C22_RelayNeverHoldsPlaintext ==
    /\ \A r \in Range(db_messages) : IsEnvelopeBytes(r.ciphertext)
    /\ \A h \in Handles : \A i \in 1..Len(channels[h].queue) :
          channels[h].queue[i].kind = "Message"
              => IsEnvelopeBytes(channels[h].queue[i].ciphertext)

\* the sessions row a connection's token hashes to, whatever its expiry
SessionsOf(h) ==
    {r \in db_sessions : is_some(sockets[h].token)
                         /\ r.token_hash = Sha256(unwrap(sockets[h].token))}

\* C23: a connection exists, and is registered, only for a token that hashed
\* to a sessions row which had not expired when the upgrade was asked for; the
\* connection acts for the user of that row.
C23_OnlyLiveSessionsConnect ==
    /\ [](\A u \in Clients : \A h \in Range(handles_of(connections, u)) :
             \E r \in SessionsOf(h) : r.user_id = u /\ sockets[h].user_id = u)
    /\ [][\A h \in Handles :
             (sockets[h].pc = "unused" /\ sockets'[h].pc # "unused")
                 => \E r \in SessionsOf(h)' : r.user_id = sockets'[h].user_id
                                              /\ r.expires_at > now]_vars

\* C23 witness: bob's session has run out, alice is registered, and bob, who
\* connected before, either is still registered or is gone; no connection of
\* bob is being set up.
C23_Witness ==
    /\ now >= 2
    /\ \E h \in Range(handles_of(connections, "alice")) : sockets[h].token = Some("t_alice")
    /\ \A h \in Handles : sockets[h].pc = "registering" => sockets[h].user_id # "bob"

\* ServerMessage::Error { code, .. } (messages.rs:128) as a queued frame
ErrorFrame(code) ==
    [kind |-> "Error", id |-> 0, sender_id |-> "", ciphertext |-> <<>>, code |-> code]

\* the step queued an Error frame with this code to an open connection
Answered(code) ==
    \E h \in Handles :
        /\ sockets[h].pc = "open"
        /\ channels'[h].queue = Append(channels[h].queue, ErrorFrame(code))

\* the step handled a frame that did not decode to a ClientMessage
UndecodableHandled ==
    note' # note /\ note'.op = "handle_message" /\ note'.tag # "Ok"

\* C24: when a frame with an unknown tag, or one that does not decode, is
\* handled, an Error frame with code InvalidMessage is queued to the sending
\* connection, and no connection is closed or removed from the registry.
C24_UndecodableAnsweredWithError ==
    [][UndecodableHandled
         => /\ Answered("InvalidMessage")
            /\ connections' = connections
            /\ \A h \in Handles : sockets'[h].pc = sockets[h].pc]_vars

\* the step handled a SendMessage whose INSERT the database refused
StoreFailed ==
    note' # note /\ note'.op = "send_message" /\ note'.tag # "Ok"

\* C25: when the storage refuses the operation of a frame, an Error frame with
\* code InternalError is queued to the requesting connection, and no
\* connection is closed.
C25_StorageFailureAnswered ==
    [][StoreFailed
         => /\ Answered("InternalError")
            /\ \A h \in Handles : sockets'[h].pc = sockets[h].pc]_vars

\* the bytes are a ClientMessage written by one of the two encoders
WellEncoded(data) ==
    \E type \in ClientMessageTypes :
        data \in {json_encode_client_message([type |-> type]),
                  encode_client_message([type |-> type])}

\* C26: a frame that either encoder wrote from a ClientMessage is decoded to
\* that message and handled, whichever encoding it is in.
C26_EitherEncodingAccepted ==
    [][(note' # note /\ note'.op = "handle_message" /\ WellEncoded(unwrap(note'.data)))
         => note'.tag = "Ok"]_vars

\* request r has a bundle of its target to answer with and has consumed a
\* one-time prekey for it
Served(r) ==
    /\ requests[r].pc \in {"respond", "done"}
    /\ is_some(requests[r].pk)
    /\ is_some(requests[r].otp)

\* C27: every request that served a bundle of a user and left fewer than
\* LOW_PREKEYS unused one-time prekeys of that user has made the relay send
\* the user a LowPrekeys frame, whichever path the request came by.
C27_LowPrekeysOnEveryPath ==
    \A r \in 1..MaxRequests :
        (/\ Served(r)
         /\ count_one_time_prekeys(db_one_time_prekeys, requests[r].target) < LOW_PREKEYS)
            => \E f \in low_prekeys : f.by = r /\ f.to = requests[r].target

\* C28: encrypt on a ratchet whose send_counter is U32_MAX returns
\* CounterOverflow, emits nothing and leaves the counter at U32_MAX; the send
\* counter goes down only when a DH ratchet starts a new sending chain; and
\* no two envelopes of one sending chain carry the same message_number.
C28_SendCounterNeverWraps ==
    /\ [](\A p \in Parties : \A i, j \in 1..Len(sent[p]) :
             (/\ i # j
              /\ sent[p][i].header.dh_public = sent[p][j].header.dh_public)
                 => sent[p][i].header.message_number # sent[p][j].header.message_number)
    /\ [][\A p \in Parties :
             /\ (last'.op = "encrypt" /\ last'.party = p
                 /\ ratchet[p].send_counter = U32_MAX)
                    => /\ last'.tag = "CounterOverflow"
                       /\ sent' = sent
                       /\ ratchet'[p].send_counter = U32_MAX
             /\ ratchet'[p].send_counter < ratchet[p].send_counter
                    => ratchet'[p].dh_self # ratchet[p].dh_self]_vars

\* C28 witness: alice sent the last message her counter can number, and the
\* encrypt call after it returned CounterOverflow.
C28_Witness ==
    /\ last.op = "encrypt" /\ last.party = "alice" /\ last.tag = "CounterOverflow"
    /\ ratchet["alice"].send_counter = U32_MAX
    /\ \E i \in 1..Len(sent["alice"]) :
          sent["alice"][i].header.message_number = U32_MAX - 1

\* C29: SessionManager::encrypt and SessionManager::decrypt of a party that
\* has no session with the peer return SessionNotFound, and leave both
\* managers (sessions, identity, signed prekey, one-time prekey pool) as they
\* were, draw nothing from the RNG and put nothing on the wire.
C29_NoSessionNoEffect ==
    [][\A p \in Parties :
          (/\ event'.op \in {"encrypt", "decrypt"}
           /\ event'.party = p
           /\ is_none(managers[p].sessions[Peer(p)]))
              => /\ event'.tag = "SessionNotFound"
                 /\ managers' = managers
                 /\ drawn' = drawn
                 /\ wire' = wire]_vars

\* C29 witness: bob, with one-time prekeys in his pool and no session, was
\* handed an envelope of alice and decrypt returned SessionNotFound.
C29_Witness ==
    /\ event.op = "decrypt" /\ event.party = "bob" /\ event.tag = "SessionNotFound"
    /\ is_none(managers["bob"].sessions["alice"])
    /\ Len(managers["bob"].one_time_prekeys) > 0

\* what a ratchet does next: the outcome of encrypting a plaintext and of
\* decrypting each envelope the peer has sent
Behaviour(st, p) ==
    [enc |-> encrypt(st, Plaintext(p, MaxSend + 1)),
     dec |-> [i \in 1..Len(sent[Peer(p)]) |->
                decrypt(st, sent[Peer(p)][i].header, sent[Peer(p)][i].ciphertext, rng)]]

\* C30: importing what export wrote gives back the state that was exported,
\* for a ratchet and for a session: the DH pair with the public key of the
\* exported scalar, the remote key, root and chain keys, counters and skipped
\* keys; it encrypts and decrypts every later message as the original would.
C30_ExportImportRoundTrip ==
    /\ [](\A p \in Parties :
            LET r == DoubleRatchet_import(DoubleRatchet_export(ratchet[p]))
                s == Session_import(Session_export(SessionOf(p)))
            IN  /\ r.tag = "Ok" /\ s.tag = "Ok"
                /\ unwrap(r.st) = ratchet[p]
                /\ unwrap(s.session) = SessionOf(p)
                /\ unwrap(r.st).dh_self = Some(DHKeyPair(unwrap(ratchet[p].dh_self_bytes)))
                /\ Behaviour(unwrap(r.st), p) = Behaviour(ratchet[p], p)
                /\ Behaviour(unwrap(s.session).ratchet, p) = Behaviour(ratchet[p], p))
    /\ [][last'.op = "import" => (last'.tag = "Ok" /\ ratchet' = ratchet)]_vars

\* C30 witness: a party that has ratcheted its DH pair and holds skipped
\* message keys went on with its imported session.
C30_Witness ==
    /\ last.op = "import" /\ last.tag = "Ok"
    /\ ratchet[last.party].skipped_keys # {}
    /\ ratchet[last.party].dh_self_bytes \notin {Some(1), Some(2)}
    /\ ratchet[last.party].send_counter > 0

\* entry a went into the cache before entry b: within one receiving chain the
\* keys are inserted in the order of their message numbers
InsertedBefore(a, b) == a.dh = b.dh /\ a.n < b.n

\* C31: when a decrypt that inserts skipped keys evicts an entry of the
\* cache, no entry that stays in the cache was inserted before the evicted
\* one: the eviction is first in, first out.
C31_EvictsOldest ==
    [][\A p \in Parties :
          (last'.op = "decrypt" /\ last'.party = p /\ ~last'.cached)
              => \A x \in ratchet[p].skipped_keys \ ratchet'[p].skipped_keys :
                   \A y \in ratchet[p].skipped_keys \cap ratchet'[p].skipped_keys :
                       ~InsertedBefore(y, x)]_vars

\* the pool receive_session is to leave: the pool it found, without the
\* one-time prekey the initial message refers to when the pool holds it
PoolWithout(pool, opk_id) ==
    IF is_some(opk_id) /\ is_some(position_of(pool, unwrap(opk_id)))
    THEN remove_at(pool, unwrap(position_of(pool, unwrap(opk_id))))
    ELSE pool

\* C32: receive_session changes the one-time prekey pool only by removing
\* the prekey the initial message refers to; every other prekey stays, in
\* order, and the first of them is what get_prekey_bundle offers next; with
\* no reference the pool is unchanged.
C32_OnlyReferencedPrekeyLeaves ==
    [][event'.op = "receive_session"
          => LET p == event'.party
                 kept == PoolWithout(managers[p].one_time_prekeys, event'.opk_id)
             IN  /\ managers'[p].one_time_prekeys = kept
                 /\ SessionManager_get_prekey_bundle(managers'[p]).one_time_prekey
                      = IF Len(kept) > 0 THEN Some(kept[1]) ELSE None]_vars

\* C33: a decrypt call that finds the header's key in skipped_keys and whose
\* ciphertext fails authentication leaves the entry in skipped_keys, so that
\* the genuine message with that header can still be decrypted later.
C33_SkippedKeyOutlivesForgery ==
    [][(last'.op \in {"decrypt", "forge"} /\ last'.cached /\ last'.tag # "Ok")
          => ratchet'[last'.party].skipped_keys = ratchet[last'.party].skipped_keys]_vars

\* the envelope of the peer that the decrypt call recorded in last' was handed
Handed(p) == CHOOSE e \in Range(sent[Peer(p)]) : e.ciphertext.pt = last'.expect

\* the decrypt call recorded in last' is p's first touch of a genuine
\* envelope, and nothing but genuine envelopes has reached anyone so far
Undisturbed(p) ==
    /\ last'.op = "decrypt" /\ last'.party = p
    /\ ~last'.replay
    /\ adversary' = 0

\* C34: when the first message p gets of the peer's new chain arrives while
\* at most MAX_SKIP messages of the peer's previous chain are still missing,
\* decrypt stores the keys of the missing ones, up to the header's
\* previous_counter, under the previous remote key; each delayed message of
\* the previous chain is then decrypted from the cache to its plaintext, and
\* not a second time.
C34_OldChainSurvivesRatchet ==
    [][\A p \in Parties :
         /\ (/\ Undisturbed(p) /\ last'.new_key /\ ~last'.cached
             /\ is_some(ratchet[p].chain_key_recv)
             /\ Handed(p).header.previous_counter - ratchet[p].recv_counter <= MAX_SKIP)
                => \A n \in ratchet[p].recv_counter..(Handed(p).header.previous_counter - 1) :
                      \E x \in ratchet'[p].skipped_keys :
                          x.dh = unwrap(ratchet[p].dh_remote) /\ x.n = n
         /\ (/\ Undisturbed(p) /\ last'.cached
             /\ Some(Handed(p).header.dh_public) # ratchet[p].dh_remote)
                => (last'.tag = "Ok" /\ last'.pt = last'.expect)
         /\ (/\ last'.op = "decrypt" /\ last'.party = p /\ last'.opened_before
             /\ adversary = 0
             /\ Some(Handed(p).header.dh_public) # ratchet[p].dh_remote)
                => last'.tag # "Ok"]_vars

\* a message of the peer's previous chain has just been decrypted from the
\* cache, after the peer's new chain was taken up
C34_Witness ==
    /\ last.op = "decrypt" /\ last.cached /\ last.tag = "Ok" /\ ~last.replay
    /\ adversary = 0
    /\ \E e \in Range(sent[Peer(last.party)]) :
         /\ e.ciphertext.pt = last.pt
         /\ Some(e.header.dh_public) # ratchet[last.party].dh_remote
         /\ e.header.previous_counter = 0
    /\ \E e \in Range(sent[Peer(last.party)]) : e.header.previous_counter > 0

\* the DH public keys p has put into the headers of its envelopes
UsedPublics(p) == {e.header.dh_public : e \in Range(sent[p])}

\* the remote DH keys p has seen: those of the peer's envelopes it decrypted
SeenRemote(p) == {sent[Peer(p)][i].header.dh_public : i \in accepted[p]}

\* the step is a decrypt by p of an envelope of the peer, and nothing but
\* the peer's envelopes, each once, had reached anyone before it
Decrypts(p) == last'.op = "decrypt" /\ last'.party = p /\ adversary = 0

\* C35: a decrypt that succeeds on a header with a remote DH key the party had
\* not seen replaces dh_self with a fresh pair whose public key the party has
\* never sent, and restarts send_counter at 0; a decrypt of an envelope whose
\* remote DH key the party has seen, and an encrypt, leave dh_self alone; each
\* envelope carries the public key of the dh_self of its time.
C35_DhRotation ==
    [][\A p \in Parties :
         /\ (/\ Decrypts(p) /\ last'.tag = "Ok"
             /\ Handed(p).header.dh_public \notin SeenRemote(p))
               => /\ is_some(ratchet'[p].dh_self)
                  /\ ratchet'[p].dh_self # ratchet[p].dh_self
                  /\ unwrap(ratchet'[p].dh_self).public \notin UsedPublics(p)
                  /\ ratchet'[p].send_counter = 0
         /\ (Decrypts(p) /\ Handed(p).header.dh_public \in SeenRemote(p))
               => ratchet'[p].dh_self = ratchet[p].dh_self
         /\ (last'.op = "encrypt" /\ last'.party = p /\ last'.tag = "Ok")
               => /\ Len(sent'[p]) = Len(sent[p]) + 1
                  /\ sent'[p][Len(sent'[p])].header.dh_public
                       = unwrap(ratchet[p].dh_self).public
                  /\ ratchet'[p].dh_self = ratchet[p].dh_self]_vars

\* the responder of the pair: the party whose ratchet init_receiver made
Responder == "bob"

\* C36: while the responder has not decrypted a message of the initiator,
\* its encrypt returns SessionNotInitialized and leaves the ratchet and the
\* network as they were; once it has decrypted one, its encrypt succeeds.
C36_ResponderSendsAfterFirstDecrypt ==
    [][(last'.op = "encrypt" /\ last'.party = Responder)
          => IF accepted[Responder] = {}
             THEN /\ last'.tag = "SessionNotInitialized"
                  /\ ratchet' = ratchet
                  /\ sent' = sent
             ELSE last'.tag = "Ok"]_vars

\* C37: an AckMessages frame handled for a connection authenticated as user U
\* sets delivered_at only on rows whose recipient_id is U; rows addressed to
\* another user are left as they were.
C37_OnlyRecipientAcks ==
    [][(now' # now /\ note'.op = "ack_messages")
          => \A i \in 1..Len(db_messages) :
                 db_messages'[i] # db_messages[i]
                     => db_messages[i].recipient_id = unwrap(note'.user_id)]_vars

\* the connections of u whose handle_socket has registered them and has not
\* yet removed them
Registered(u) == {h \in Handles : sockets[h].user_id = u /\ sockets[h].pc \in {"open", "closing"}}

\* is_online(u) holds exactly when a connection of u is registered; the
\* user's entry lists the registered connections, each once, and is never
\* an empty list
RegistryMatchesSockets ==
    \A u \in Clients :
        /\ is_online(connections, u) <=> Registered(u) # {}
        /\ connections[u] # Some(<<>>)
        /\ Range(handles_of(connections, u)) = Registered(u)
        /\ Len(handles_of(connections, u)) = Cardinality(Registered(u))

\* the cleanup of one connection takes exactly its handle out of the
\* registry, and a step of a frame's handler leaves the registry alone
RegistrySteps ==
    /\ \A h \in Handles :
         (sockets[h].pc = "closing" /\ sockets'[h].pc = "closed")
            => \A u \in Clients :
                  handles_of(connections', u)
                    = SelectSeq(handles_of(connections, u), LAMBDA c : c # h)
    /\ (tasks' # tasks \/ note' # note) => connections' = connections

\* C38: is_online(u) holds exactly when at least one handle of u is
\* registered and no user maps to an empty list of handles; removing one
\* handle removes exactly that handle; handling a frame never adds or removes
\* a handle; and every connection whose reader loop has ended has its handle
\* removed.
C38_RegistryConsistent ==
    /\ []RegistryMatchesSockets
    /\ [][RegistrySteps]_vars
    /\ \A h \in Handles : (sockets[h].pc = "closing") ~> (sockets[h].pc = "closed")

\* the connection whose handler makes the step
Handling(g) == tasks[g].pc \in {"fanout", "confirm", "relay"} /\ tasks'[g] # tasks[g]

\* the frames the step puts into the queue of connection h
Enqueued(h) ==
    IF Len(channels'[h].queue) > Len(channels[h].queue)
    THEN {channels'[h].queue[Len(channels'[h].queue)]}
    ELSE {}

\* C39: the sender_id of every Message frame and the user_id of every
\* TypingIndicator, ReactionAdded and ReactionRemoved frame the relay queues is
\* the user authenticated for the connection whose frame is being handled,
\* and a Message frame is queued only to a connection registered for the
\* recipient_id of its row.
C39_RelayedFramesCarrySender ==
    [][\A h \in Handles : \A f \in Enqueued(h) :
          \E g \in Handles :
              /\ Handling(g)
              /\ f.kind = "Message"
                    => /\ f.sender_id = sockets[g].user_id
                       /\ sockets[h].user_id = unwrap(tasks[g].row).recipient_id
                       /\ h \in Range(handles_of(connections,
                                                 unwrap(tasks[g].row).recipient_id))
              /\ f.kind \in {"TypingIndicator", "ReactionAdded", "ReactionRemoved"}
                    => f.user_id = sockets[g].user_id]_vars

\* a connection of one user holds a TypingIndicator frame that names another
\* user, who sent it with a conversation id that is the reader's user id
C39_Witness ==
    \E h \in Handles : \E f \in Range(channels[h].queue) :
        /\ f.kind = "TypingIndicator"
        /\ f.user_id # sockets[h].user_id
        /\ f.conversation_id = sockets[h].user_id

\* C40: every frame the relay has queued for a connected terminal client and
\* the forwarding task has written to the socket reaches the client's
\* incoming channel decoded as the same message: the reader discards none.
C40_ClientDecodesRelayFrames ==
    [][(note'.op = "client_read" /\ channels' # channels)
          => (/\ note'.tag = "Ok"
              /\ Client_read(forward(json_encode_server_message(unwrap(note'.data))))
                   = note'.data)]_vars

=============================================================================
